---- MODULE Spec2Model ----
(***************************************************************************)
(* Model of the seedify query analyzer (src/analyzer): extractTableNames,  *)
(* extractIdConditions, analyzeFile and generateJailerConditions.          *)
(*                                                                         *)
(* A query text is a sequence of lexical tokens: maximal word runs,        *)
(* whitespace runs, $N placeholders, integer literals, quoted strings and  *)
(* punctuation.  The regular expressions of the analyzer are modelled as   *)
(* sequences of pattern elements matched against the token sequence, with  *)
(* the leftmost, non-overlapping scan of RegExp.prototype.exec under the   *)
(* g flag.  JavaScript values are tagged records, undefined and null are   *)
(* distinguished markers.                                                  *)
(***************************************************************************)
EXTENDS Integers, Sequences, FiniteSets, TLC

(***************************************************************************)
(* Bounds of the model.                                                    *)
(***************************************************************************)
MaxLines == 3

(***************************************************************************)
(* JavaScript values.                                                      *)
(***************************************************************************)
Undefined == "<undefined>"
Null == "<null>"

Num(n) == [kind |-> "number", num |-> n, str |-> "", arr |-> <<>>, ref |-> 0]
Str(s) == [kind |-> "string", num |-> 0, str |-> s, arr |-> <<>>, ref |-> 0]
NullV == [kind |-> "null", num |-> 0, str |-> "", arr |-> <<>>, ref |-> 0]
Arr(elems, r) == [kind |-> "array", num |-> 0, str |-> "", arr |-> elems, ref |-> r]

(***************************************************************************)
(* Tokens of a query text.                                                 *)
(***************************************************************************)
W(s) == [k |-> "w", s |-> s, n |-> 0]
SP == [k |-> "ws", s |-> " ", n |-> 1]
WS(n) == [k |-> "ws", s |-> " ", n |-> n]
Sym(s) == [k |-> "sym", s |-> s, n |-> 0]
PH(n) == [k |-> "ph", s |-> "$", n |-> n]
NumLit(n) == [k |-> "num", s |-> "", n |-> n]
StrLit(s) == [k |-> "str", s |-> s, n |-> 0]

(***************************************************************************)
(* String.prototype.toLowerCase / toUpperCase on the words of the model's  *)
(* vocabulary (every other word of the vocabulary is already lower case).  *)
(***************************************************************************)
toLowerCase(s) ==
    CASE s = "SELECT" -> "select" [] s = "FROM" -> "from" [] s = "From" -> "from"
      [] s = "WHERE" -> "where" [] s = "AND" -> "and" [] s = "NOT" -> "not"
      [] s = "IN" -> "in" [] s = "IS" -> "is" [] s = "NULL" -> "null"
      [] s = "BEGIN" -> "begin" [] s = "COMMIT" -> "commit"
      [] s = "UPDATE" -> "update" [] s = "SET" -> "set" [] s = "JOIN" -> "join"
      [] s = "INTO" -> "into" [] s = "DELETE" -> "delete" [] s = "INSERT" -> "insert"
      [] s = "VALUES" -> "values" [] s = "BETWEEN" -> "between" [] s = "ANY" -> "any"
      [] s = "LIKE" -> "like" [] s = "ILIKE" -> "ilike" [] s = "ON" -> "on"
      [] s = "Users" -> "users" [] s = "ID" -> "id"
      [] OTHER -> s

toUpperCase(s) ==
    CASE s = "like" -> "LIKE" [] s = "ilike" -> "ILIKE" [] s = "Like" -> "LIKE"
      [] s = "is" -> "IS" [] s = "not" -> "NOT" [] s = "null" -> "NULL"
      [] OTHER -> s

(***************************************************************************)
(* query.replace(/\s+/g, ' ').trim(): every whitespace run becomes one     *)
(* space, leading and trailing whitespace is removed.                      *)
(***************************************************************************)
RECURSIVE DropLeadingWs(_)
DropLeadingWs(toks) ==
    IF toks # <<>> /\ Head(toks).k = "ws" THEN DropLeadingWs(Tail(toks)) ELSE toks

RECURSIVE DropTrailingWs(_)
DropTrailingWs(toks) ==
    IF toks # <<>> /\ toks[Len(toks)].k = "ws"
    THEN DropTrailingWs(SubSeq(toks, 1, Len(toks) - 1))
    ELSE toks

normalize(query) ==
    LET collapsed == [j \in 1..Len(query) |->
                        IF query[j].k = "ws" THEN SP ELSE query[j]]
    IN DropTrailingWs(DropLeadingWs(collapsed))


(***************************************************************************)
(* Regular expressions over token sequences.  A pattern is a sequence of   *)
(* elements; a regular expression is a sequence of alternative patterns    *)
(* tried in order at the same start position.  Captures are collected in   *)
(* three lists: words (w), integers (n) and a parenthesised body (body).   *)
(***************************************************************************)
El(e, a) == [e |-> e, a |-> {a}]
ElAny(e, as) == [e |-> e, a |-> as]

Ident == ElAny("ident", {})
Ws0 == ElAny("ws*", {})
Ws1 == ElAny("ws+", {})
Dot == El("sym", ".")
Kw(k) == El("kw", k)
Placeholder == ElAny("ph", {})

NoCaps == [w |-> <<>>, n |-> <<>>, body |-> <<>>]
NoMatch == [ok |-> FALSE, end |-> 0, caps |-> NoCaps]

\* index of the first ")" at or after position p, 0 when there is none
RECURSIVE FirstClose(_, _)
FirstClose(toks, p) ==
    IF p > Len(toks) THEN 0
    ELSE IF toks[p].k = "sym" /\ toks[p].s = ")" THEN p
    ELSE FirstClose(toks, p + 1)

RECURSIVE MatchFrom(_, _, _, _, _)
MatchFrom(pat, k, toks, p, caps) ==
    IF k > Len(pat) THEN [ok |-> TRUE, end |-> p, caps |-> caps]
    ELSE
      LET el == pat[k]
          has == p <= Len(toks)
          tok == toks[p]
          next(c) == MatchFrom(pat, k + 1, toks, p + 1, c)
      IN CASE el.e = "ws*" ->
                IF has /\ tok.k = "ws" THEN next(caps)
                ELSE MatchFrom(pat, k + 1, toks, p, caps)
           [] el.e = "ws+" ->
                IF has /\ tok.k = "ws" THEN next(caps) ELSE NoMatch
           [] el.e = "ident" ->
                IF has /\ tok.k = "w"
                THEN next([caps EXCEPT !.w = Append(@, tok.s)])
                ELSE NoMatch
           [] el.e = "optqual" ->   \* (?:\.ident)? , greedy
                IF p + 1 <= Len(toks) /\ tok.k = "sym" /\ tok.s = "."
                   /\ toks[p + 1].k = "w"
                THEN MatchFrom(pat, k + 1, toks, p + 2,
                               [caps EXCEPT !.w = Append(@, toks[p + 1].s)])
                ELSE MatchFrom(pat, k + 1, toks, p, caps)
           [] el.e = "kw" ->        \* keyword, i flag
                IF has /\ tok.k = "w" /\ toLowerCase(tok.s) \in el.a
                THEN next(caps) ELSE NoMatch
           [] el.e = "kwcap" ->     \* captured keyword, i flag
                IF has /\ tok.k = "w" /\ toLowerCase(tok.s) \in el.a
                THEN next([caps EXCEPT !.w = Append(@, tok.s)])
                ELSE NoMatch
           [] el.e = "sym" ->
                IF has /\ tok.k = "sym" /\ tok.s \in el.a THEN next(caps) ELSE NoMatch
           [] el.e = "symcap" ->
                IF has /\ tok.k = "sym" /\ tok.s \in el.a
                THEN next([caps EXCEPT !.w = Append(@, tok.s)])
                ELSE NoMatch
           [] el.e = "ph" ->        \* \$(\d+)
                IF has /\ tok.k = "ph"
                THEN next([caps EXCEPT !.n = Append(@, tok.n)])
                ELSE NoMatch
           [] el.e = "num" ->       \* (\d+)\b
                IF has /\ tok.k = "num"
                THEN next([caps EXCEPT !.n = Append(@, tok.n)])
                ELSE NoMatch
           [] el.e = "str" ->       \* '([^']+)'
                IF has /\ tok.k = "str"
                THEN next([caps EXCEPT !.w = Append(@, tok.s)])
                ELSE NoMatch
           [] el.e = "body" ->      \* \(([^)]+)\)
                IF has /\ tok.k = "sym" /\ tok.s = "("
                THEN LET q == FirstClose(toks, p + 1)
                     IN IF q > p + 1
                        THEN MatchFrom(pat, k + 1, toks, q + 1,
                                 [caps EXCEPT !.body = SubSeq(toks, p + 1, q - 1)])
                        ELSE NoMatch
                ELSE NoMatch

\* the alternatives of a regular expression are tried in order at position i
RECURSIVE MatchAt(_, _, _, _)
FirstMatch(alts, a, toks, i, m) ==
    IF m.ok THEN m ELSE MatchAt(alts, a + 1, toks, i)

MatchAt(alts, a, toks, i) ==
    IF a > Len(alts) THEN NoMatch
    ELSE FirstMatch(alts, a, toks, i, MatchFrom(alts[a], 1, toks, i, NoCaps))

\* while ((match = pattern.exec(text)) !== null): the captures of all
\* matches, leftmost first, each search resuming where the last match ended
RECURSIVE execAll(_, _, _)
exec(alts, toks, i, m) ==
    IF m.ok THEN <<m.caps>> \o execAll(alts, toks, m.end)
    ELSE execAll(alts, toks, i + 1)

execAll(alts, toks, i) ==
    IF i > Len(toks) THEN <<>>
    ELSE exec(alts, toks, i, MatchAt(alts, 1, toks, i))

RECURSIVE Flatten(_)
Flatten(seqs) ==
    IF seqs = <<>> THEN <<>> ELSE Head(seqs) \o Flatten(Tail(seqs))

Contains(seq, x) == \E j \in 1..Len(seq) : seq[j] = x

\* insertion into a JavaScript Set kept in insertion order
SetAdd(seq, x) == IF Contains(seq, x) THEN seq ELSE Append(seq, x)

RECURSIVE SetAddAll(_, _)
SetAddAll(seq, xs) ==
    IF xs = <<>> THEN seq ELSE SetAddAll(SetAdd(seq, Head(xs)), Tail(xs))

(***************************************************************************)
(* extractTableNames                                                       *)
(***************************************************************************)
keywords ==
    {"select", "where", "and", "or", "not", "null", "true", "false",
     "order", "group", "having", "limit", "offset", "union", "intersect",
     "except", "case", "when", "then", "else", "end", "as", "on",
     "lateral", "recursive", "with", "values", "returning", "set"}

isKeyword(word) == toLowerCase(word) \in keywords

TableName == <<Ident, ElAny("optqual", {})>>

\* tablePatterns with the UPDATE pattern tried first
tablePatternsUpdateFirst ==
    << <<Kw("update"), Ws1>> \o TableName,
       <<Kw("from"), Ws1>> \o TableName,
       <<Kw("join"), Ws1>> \o TableName,
       <<Kw("into"), Ws1>> \o TableName,
       <<Kw("delete"), Ws1, Kw("from"), Ws1>> \o TableName >>

tablePatterns ==
    << <<Kw("from"), Ws1>> \o TableName,
       <<Kw("join"), Ws1>> \o TableName,
       <<Kw("into"), Ws1>> \o TableName,
       <<Kw("update"), Ws1>> \o TableName,
       <<Kw("delete"), Ws1, Kw("from"), Ws1>> \o TableName >>

\* match[1] of a table pattern, without the conversion to lower case
MatchedTableNameRaw(caps) ==
    IF Len(caps.w) = 2 THEN caps.w[1] \o "." \o caps.w[2] ELSE caps.w[1]

\* match[1].toLowerCase() of a table pattern
MatchedTableName(caps) ==
    IF Len(caps.w) = 2
    THEN toLowerCase(caps.w[1]) \o "." \o toLowerCase(caps.w[2])
    ELSE toLowerCase(caps.w[1])

RECURSIVE AddTables(_, _)
AddTables(tables, matches) ==
    IF matches = <<>> THEN tables
    ELSE LET tableName == MatchedTableName(Head(matches))
         IN AddTables(IF ~isKeyword(tableName) THEN SetAdd(tables, tableName)
                      ELSE tables,
                      Tail(matches))

RECURSIVE TablesFrom(_, _, _)
TablesFrom(tables, k, normalized) ==
    IF k > Len(tablePatterns) THEN tables
    ELSE TablesFrom(AddTables(tables, execAll(<<tablePatterns[k]>>, normalized, 1)),
                    k + 1, normalized)

extractTableNames(query) == TablesFrom(<<>>, 1, normalize(query))

(***************************************************************************)
(* extractIdConditions                                                     *)
(***************************************************************************)
Cond(table, column, operator, values) ==
    [table |-> table, column |-> column, operator |-> operator, values |-> values]

Lit(c) == El("sym", c)
Qualified == <<Ident, Dot, Ident>>
CompareOp == ElAny("symcap", {">=", "<=", "<>", "!=", ">", "<"})
LikeOp == ElAny("kwcap", {"like", "ilike"})
Body == ElAny("body", {})

simpleEqualPattern == << <<Ident, Ws0, Lit("="), Ws0, Placeholder>> >>
tableEqualPattern == << Qualified \o <<Ws0, Lit("="), Ws0, Placeholder>> >>
simpleInPattern == << <<Ident, Ws1, Kw("in"), Ws0, Body>> >>
tableInPattern == << Qualified \o <<Ws1, Kw("in"), Ws0, Body>> >>
simpleComparePattern == << <<Ident, Ws0, CompareOp, Ws0, Placeholder>> >>
tableComparePattern == << Qualified \o <<Ws0, CompareOp, Ws0, Placeholder>> >>
BetweenTail == <<Ws1, Kw("between"), Ws1, Placeholder, Ws1, Kw("and"), Ws1, Placeholder>>
simpleBetweenPattern == << <<Ident>> \o BetweenTail >>
tableBetweenPattern == << Qualified \o BetweenTail >>
simpleLikePattern == << <<Ident, Ws1, LikeOp, Ws0, Placeholder>> >>
tableLikePattern == << Qualified \o <<Ws1, LikeOp, Ws0, Placeholder>> >>
simpleNotInPattern == << <<Ident, Ws1, Kw("not"), Ws1, Kw("in"), Ws0, Body>> >>
tableNotInPattern == << Qualified \o <<Ws1, Kw("not"), Ws1, Kw("in"), Ws0, Body>> >>
IsNotNull == <<ElAny("kwcap", {"is"}), Ws1, ElAny("kwcap", {"not"}), Ws1,
               ElAny("kwcap", {"null"})>>
IsNull == <<ElAny("kwcap", {"is"}), Ws1, ElAny("kwcap", {"null"})>>
simpleIsNullPattern == << <<Ident, Ws1>> \o IsNotNull, <<Ident, Ws1>> \o IsNull >>
tableIsNullPattern == << Qualified \o <<Ws1>> \o IsNotNull,
                         Qualified \o <<Ws1>> \o IsNull >>
AnyTail == <<Ws0, Lit("="), Ws0, Kw("any"), Ws0, Lit("("), Ws0, Placeholder, Ws0, Lit(")")>>
simpleAnyPattern == << <<Ident>> \o AnyTail >>
tableAnyPattern == << Qualified \o AnyTail >>
literalPattern == << Qualified \o <<Ws0, Lit("="), Ws0, ElAny("num", {})>> >>
stringLiteralPattern == << Qualified \o <<Ws0, Lit("="), Ws0, ElAny("str", {})>> >>

\* a resolution that takes $N for params[N] and so never resolves the last
DefinedZeroIndexed(params, n) == n \in 1..(Len(params) - 1)

\* params[N - 1] !== undefined
Defined(params, n) == n \in 1..Len(params)

\* paramsStr.match(/\$(\d+)/g): the placeholder numbers inside the body
RECURSIVE paramMatches(_)
paramMatches(body) ==
    IF body = <<>> THEN <<>>
    ELSE (IF Head(body).k = "ph" THEN <<Head(body).n>> ELSE <<>>)
         \o paramMatches(Tail(body))

\* paramMatches.map(p => params[idx]).filter(v => v !== undefined)
RECURSIVE ResolveAll(_, _)
ResolveAll(ns, params) ==
    IF ns = <<>> THEN <<>>
    ELSE (IF Defined(params, Head(ns)) THEN <<params[Head(ns)]>> ELSE <<>>)
         \o ResolveAll(Tail(ns), params)

\* Array.isArray(paramValue) ? paramValue : [paramValue]
AnyValues(paramValue) ==
    IF paramValue.kind = "array" THEN paramValue.arr ELSE <<paramValue>>

\* match[k].toUpperCase().replace(/\s+/g, ' ') of an IS [NOT] NULL match
NullOperator(words) ==
    IF Len(words) = 3
    THEN toUpperCase(words[1]) \o " " \o toUpperCase(words[2]) \o " "
         \o toUpperCase(words[3])
    ELSE toUpperCase(words[1]) \o " " \o toUpperCase(words[2])

\* String.prototype.endsWith on the column names of the model's vocabulary
endsWith(col, suffix) ==
    CASE suffix = "_id" -> col \in {"user_id", "category_id"}
      [] suffix = "id" -> col \in {"id", "user_id", "category_id", "paid"}

isIdColumn(column) ==
    LET col == toLowerCase(column)
    IN col = "id" \/ endsWith(col, "_id") \/ endsWith(col, "id")

\* one family: the conditions pushed by its while loop, in match order;
\* q = 1 for a table-qualified pattern (table is capture 1), 0 otherwise
\* TableOf that drops the qualifier
TableOfNone(m, q) == Null

TableOf(m, q) == IF q = 1 THEN toLowerCase(m.w[1]) ELSE Null
ColumnOf(m, q) == toLowerCase(m.w[1 + q])

EqualFamily(ms, q, params) ==
    Flatten([j \in 1..Len(ms) |->
          IF Defined(params, ms[j].n[1])
          THEN <<Cond(TableOf(ms[j], q), ColumnOf(ms[j], q), Undefined,
                      <<params[ms[j].n[1]]>>)>>
          ELSE <<>>])

InFamily(ms, q, operator, params) ==
    Flatten([j \in 1..Len(ms) |->
          LET values == ResolveAll(paramMatches(ms[j].body), params)
          IN IF Len(values) > 0
             THEN <<Cond(TableOf(ms[j], q), ColumnOf(ms[j], q), operator, values)>>
             ELSE <<>>])

AnyFamily(ms, q, params) ==
    Flatten([j \in 1..Len(ms) |->
          IF Defined(params, ms[j].n[1])
          THEN <<Cond(TableOf(ms[j], q), ColumnOf(ms[j], q), Undefined,
                      AnyValues(params[ms[j].n[1]]))>>
          ELSE <<>>])

CompareFamily(ms, q, params) ==
    Flatten([j \in 1..Len(ms) |->
          IF Defined(params, ms[j].n[1])
          THEN <<Cond(TableOf(ms[j], q), ColumnOf(ms[j], q), ms[j].w[2 + q],
                      <<params[ms[j].n[1]]>>)>>
          ELSE <<>>])

\* BetweenFamily that needs only one of the two placeholders to resolve
BetweenFamilyEither(ms, q, params) ==
    Flatten([j \in 1..Len(ms) |->
          IF Defined(params, ms[j].n[1]) \/ Defined(params, ms[j].n[2])
          THEN <<Cond(TableOf(ms[j], q), ColumnOf(ms[j], q), "BETWEEN",
                      ResolveAll(ms[j].n, params))>>
          ELSE <<>>])

\* BETWEEN: both placeholders must resolve
BetweenFamily(ms, q, params) ==
    Flatten([j \in 1..Len(ms) |->
          IF Defined(params, ms[j].n[1]) /\ Defined(params, ms[j].n[2])
          THEN <<Cond(TableOf(ms[j], q), ColumnOf(ms[j], q), "BETWEEN",
                      <<params[ms[j].n[1]], params[ms[j].n[2]]>>)>>
          ELSE <<>>])

LikeFamily(ms, q, params) ==
    Flatten([j \in 1..Len(ms) |->
          IF Defined(params, ms[j].n[1])
          THEN <<Cond(TableOf(ms[j], q), ColumnOf(ms[j], q),
                      toUpperCase(ms[j].w[2 + q]), <<params[ms[j].n[1]]>>)>>
          ELSE <<>>])

IsNullFamily(ms, q) ==
    [j \in 1..Len(ms) |->
          Cond(TableOf(ms[j], q), ColumnOf(ms[j], q),
               NullOperator(SubSeq(ms[j].w, 2 + q, Len(ms[j].w))), <<>>)]

LiteralFamily(ms) ==
    Flatten([j \in 1..Len(ms) |->
          IF isIdColumn(toLowerCase(ms[j].w[2]))
          THEN <<Cond(toLowerCase(ms[j].w[1]), toLowerCase(ms[j].w[2]), Undefined,
                      <<Num(ms[j].n[1])>>)>>
          ELSE <<>>])

StringLiteralFamily(ms) ==
    [j \in 1..Len(ms) |->
          Cond(toLowerCase(ms[j].w[1]), toLowerCase(ms[j].w[2]), Undefined,
               <<Str(ms[j].w[3])>>)]

\* the matches of one pattern in the normalized query
matches(pattern, normalized) == execAll(pattern, normalized, 1)

Families(normalized, params) ==
    EqualFamily(matches(simpleEqualPattern, normalized), 0, params)
    \o EqualFamily(matches(tableEqualPattern, normalized), 1, params)
    \o InFamily(matches(simpleInPattern, normalized), 0, Undefined, params)
    \o InFamily(matches(tableInPattern, normalized), 1, Undefined, params)
    \o AnyFamily(matches(simpleAnyPattern, normalized), 0, params)
    \o AnyFamily(matches(tableAnyPattern, normalized), 1, params)
    \o CompareFamily(matches(simpleComparePattern, normalized), 0, params)
    \o CompareFamily(matches(tableComparePattern, normalized), 1, params)
    \o BetweenFamily(matches(simpleBetweenPattern, normalized), 0, params)
    \o BetweenFamily(matches(tableBetweenPattern, normalized), 1, params)
    \o LikeFamily(matches(simpleLikePattern, normalized), 0, params)
    \o LikeFamily(matches(tableLikePattern, normalized), 1, params)
    \o InFamily(matches(simpleNotInPattern, normalized), 0, "NOT IN", params)
    \o InFamily(matches(tableNotInPattern, normalized), 1, "NOT IN", params)
    \o IsNullFamily(matches(simpleIsNullPattern, normalized), 0)
    \o IsNullFamily(matches(tableIsNullPattern, normalized), 1)
    \o LiteralFamily(matches(literalPattern, normalized))
    \o StringLiteralFamily(matches(stringLiteralPattern, normalized))

extractIdConditions(query, params) == Families(normalize(query), params)

(***************************************************************************)
(* String conversion and the default Array.prototype.sort order.           *)
(***************************************************************************)
Digit(d) ==
    CASE d = 0 -> "0" [] d = 1 -> "1" [] d = 2 -> "2" [] d = 3 -> "3" [] d = 4 -> "4"
      [] d = 5 -> "5" [] d = 6 -> "6" [] d = 7 -> "7" [] d = 8 -> "8" [] d = 9 -> "9"

\* String(n) for a non-negative integer n
RECURSIVE NumberToString(_)
NumberToString(n) ==
    IF n < 10 THEN Digit(n) ELSE NumberToString(n \div 10) \o Digit(n % 10)

RECURSIVE NumberCodeUnits(_)
NumberCodeUnits(n) ==
    IF n < 10 THEN <<48 + n>> ELSE Append(NumberCodeUnits(n \div 10), 48 + (n % 10))

\* UTF-16 code units of the string values and table names of the model's
\* vocabulary
StringCodeUnits(s) ==
    CASE s = "cancelled" -> <<99, 97, 110, 99, 101, 108, 108, 101, 100>>
      [] s = "deleted" -> <<100, 101, 108, 101, 116, 101, 100>>
      [] s = "archived" -> <<97, 114, 99, 104, 105, 118, 101, 100>>
      [] s = "pending" -> <<112, 101, 110, 100, 105, 110, 103>>
      [] s = "alice" -> <<97, 108, 105, 99, 101>>
      [] s = "2024-01-01" -> <<50, 48, 50, 52, 45, 48, 49, 45, 48, 49>>
      [] s = "2024-02-01" -> <<50, 48, 50, 52, 45, 48, 50, 45, 48, 49>>
      [] s = "10" -> <<49, 48>>
      [] s = "9" -> <<57>>
      [] s = "users" -> <<117, 115, 101, 114, 115>>
      [] s = "orders" -> <<111, 114, 100, 101, 114, 115>>
      [] s = "_" -> <<95>>
      [] s = "u" -> <<117>>
      [] s = "" -> <<>>

RECURSIVE JoinStrings(_)
RECURSIVE JoinCodeUnits(_)

\* String(v), as used by template literals and by Array.prototype.join
ToStr(v) ==
    CASE v.kind = "number" -> NumberToString(v.num)
      [] v.kind = "string" -> v.str
      [] v.kind = "null" -> "null"
      [] v.kind = "array" -> JoinStrings(v.arr)

\* the code units of String(v)
CodeUnits(v) ==
    CASE v.kind = "number" -> NumberCodeUnits(v.num)
      [] v.kind = "string" -> StringCodeUnits(v.str)
      [] v.kind = "null" -> <<110, 117, 108, 108>>
      [] v.kind = "array" -> JoinCodeUnits(v.arr)

\* Array.prototype.join(","): null elements contribute the empty string
JoinStrings(elems) ==
    IF elems = <<>> THEN ""
    ELSE LET h == IF Head(elems).kind = "null" THEN "" ELSE ToStr(Head(elems))
         IN IF Len(elems) = 1 THEN h ELSE h \o "," \o JoinStrings(Tail(elems))

JoinCodeUnits(elems) ==
    IF elems = <<>> THEN <<>>
    ELSE LET h == IF Head(elems).kind = "null" THEN <<>> ELSE CodeUnits(Head(elems))
         IN IF Len(elems) = 1 THEN h ELSE h \o <<44>> \o JoinCodeUnits(Tail(elems))

\* a < b for strings given as code units
RECURSIVE CodeUnitsLess(_, _)
CodeUnitsLess(a, b) ==
    IF b = <<>> THEN FALSE
    ELSE IF a = <<>> THEN TRUE
    ELSE IF Head(a) # Head(b) THEN Head(a) < Head(b)
    ELSE CodeUnitsLess(Tail(a), Tail(b))

\* position of x in a sorted list: after every element that is not greater
RECURSIVE InsertSorted(_, _)
InsertSorted(sorted, x) ==
    IF sorted = <<>> THEN <<x>>
    ELSE IF CodeUnitsLess(CodeUnits(x), CodeUnits(Head(sorted)))
         THEN <<x>> \o sorted
         ELSE <<Head(sorted)>> \o InsertSorted(Tail(sorted), x)

\* Array.prototype.sort() without a comparator: elements are compared as
\* strings by code unit, equal elements keep their order
RECURSIVE SortFrom(_, _)
SortFrom(sorted, rest) ==
    IF rest = <<>> THEN sorted
    ELSE SortFrom(InsertSorted(sorted, Head(rest)), Tail(rest))

sort(values) == SortFrom(<<>>, values)

(***************************************************************************)
(* The input file: a sequence of lines separated by "\n".  A line is a     *)
(* JSON record {query, params, timestamp}, text that is not JSON ("bad"),  *)
(* the empty string ("empty") or whitespace only ("blank").                *)
(***************************************************************************)
JsonLine(query, params) == [kind |-> "json", query |-> query, params |-> params]
BadLine == [kind |-> "bad", query |-> <<>>, params |-> <<>>]
EmptyLine == [kind |-> "empty", query |-> <<>>, params |-> <<>>]
BlankLine == [kind |-> "blank", query |-> <<>>, params |-> <<>>]

IsWhitespace(line) == line.kind \in {"empty", "blank"}

RECURSIVE TrimStart(_)
TrimStart(ls) ==
    IF ls # <<>> /\ IsWhitespace(Head(ls)) THEN TrimStart(Tail(ls)) ELSE ls

RECURSIVE TrimEnd(_)
TrimEnd(ls) ==
    IF ls # <<>> /\ IsWhitespace(ls[Len(ls)])
    THEN TrimEnd(SubSeq(ls, 1, Len(ls) - 1))
    ELSE ls

\* content.trim(): leading and trailing whitespace, line breaks included
trim(file) == TrimEnd(TrimStart(file))

\* str.split('\n'): the empty string splits into one empty line
split(ls) == IF ls = <<>> THEN <<EmptyLine>> ELSE ls

\* Boolean(line): only the empty string is falsy
IsTruthy(line) == line.kind # "empty"

\* filterBoolean that keeps the empty lines
filterBooleanNone(ls) == ls

\* array.filter(Boolean)
filterBoolean(ls) == SelectSeq(ls, IsTruthy)

readLines(file) == filterBoolean(split(trim(file)))

\* JSON.parse(line) succeeds
IsJson(line) == line.kind = "json"

\* JSON.parse(line): every array of the record is a fresh object, identified
\* here by the line and the parameter position
ParsedParams(line, k) ==
    [j \in 1..Len(line.params) |->
        IF line.params[j].kind = "array"
        THEN Arr(line.params[j].arr, 10 * k + j)
        ELSE line.params[j]]

(***************************************************************************)
(* Input lines of the sessions explored by the model.                      *)
(***************************************************************************)
SelectFrom(t) == <<W("SELECT"), SP, Sym("*"), SP, W("FROM"), SP, W(t)>>
Where == <<SP, W("WHERE"), SP>>

\* SELECT * FROM t WHERE c = $1
EqQuery(t, c) == SelectFrom(t) \o Where \o <<W(c), SP, Sym("="), SP, PH(1)>>
EqLine(t, c, v) == JsonLine(EqQuery(t, c), <<v>>)

EqLines == {EqLine("users", "id", Num(42)), EqLine("_", "id", Num(9))}

\* SELECT 1 WHERE id = $1
NoTableLine ==
    JsonLine(<<W("SELECT"), SP, NumLit(1)>> \o Where
             \o <<W("id"), SP, Sym("="), SP, PH(1)>>, <<Num(10)>>)

\* "\n  select * From orders\n  WHERE created_at >= $1 AND created_at < $2\n"
DateRangeLine ==
    JsonLine(<<WS(3), W("select"), SP, Sym("*"), SP, W("From"), SP, W("orders"),
               WS(3), W("WHERE"), SP, W("created_at"), SP, Sym(">="), SP, PH(1),
               SP, W("AND"), SP, W("created_at"), SP, Sym("<"), SP, PH(2), WS(1)>>,
             <<Str("2024-01-01"), Str("2024-02-01")>>)

\* SELECT * FROM users WHERE deleted_at IS NULL
IsNullLine ==
    JsonLine(SelectFrom("users") \o Where
             \o <<W("deleted_at"), SP, W("IS"), SP, W("NULL")>>, <<>>)

\* SELECT * FROM orders WHERE status NOT IN ($1,$2,$3)
NotInLine ==
    JsonLine(SelectFrom("orders") \o Where
             \o <<W("status"), SP, W("NOT"), SP, W("IN"), SP, Sym("("),
                  PH(1), Sym(","), PH(2), Sym(","), PH(3), Sym(")")>>,
             <<Str("cancelled"), Str("deleted"), Str("archived")>>)

\* SELECT * FROM users WHERE users.id = 9
LiteralLine ==
    JsonLine(SelectFrom("users") \o Where
             \o <<W("users"), Sym("."), W("id"), SP, Sym("="), SP, NumLit(9)>>, <<>>)

\* SELECT * FROM orders WHERE orders.user_id = 9 AND users.id = 10
TwoLiteralsLine ==
    JsonLine(SelectFrom("orders") \o Where
             \o <<W("orders"), Sym("."), W("user_id"), SP, Sym("="), SP, NumLit(9),
                  SP, W("AND"), SP,
                  W("users"), Sym("."), W("id"), SP, Sym("="), SP, NumLit(10)>>, <<>>)

\* SELECT * FROM users u WHERE u.id = $1
AliasLine ==
    JsonLine(SelectFrom("users") \o <<SP, W("u")>> \o Where
             \o <<W("u"), Sym("."), W("id"), SP, Sym("="), SP, PH(1)>>, <<Num(9)>>)

\* BEGIN
BeginLine == JsonLine(<<W("BEGIN")>>, <<>>)

Pool ==
    EqLines \cup
    {NoTableLine, DateRangeLine, IsNullLine, NotInLine, LiteralLine,
     TwoLiteralsLine, AliasLine, BeginLine, BadLine, EmptyLine}

\* what the loop body extracts from the k-th line of a file, for every line
\* of the pool: const tables = extractTableNames(query) and
\* const conditions = extractIdConditions(query, params)
Extracted ==
    [line \in {l \in Pool : IsJson(l)}, k \in 1..MaxLines |->
        [tables |-> extractTableNames(line.query),
         conditions |-> extractIdConditions(line.query, ParsedParams(line, k))]]

(***************************************************************************)
(* analyzeFile: the body of the loop over the lines.                       *)
(***************************************************************************)
\* `${table || '_'}.${cond.column}`
KeyOf(table, column) == (IF table = Null THEN "_" ELSE table) \o "." \o column

MapIndex(map, key) ==
    IF \E j \in 1..Len(map) : map[j].key = key
    THEN CHOOSE j \in 1..Len(map) : map[j].key = key
    ELSE 0

\* InferTable without the inference from the query's tables
InferTableNone(cond, tables) == cond.table

\* the table of a condition: its own, or else the first table of the query
InferTable(cond, tables) ==
    IF cond.table = Null /\ Len(tables) > 0 THEN tables[1] ELSE cond.table

\* AddCondition that adds values only when it creates the entry
AddConditionFirstOnly(map, cond, tables) ==
    LET table == IF cond.table = Null /\ Len(tables) > 0 THEN tables[1] ELSE cond.table
        key == KeyOf(table, cond.column)
    IN IF MapIndex(map, key) = 0
       THEN Append(map, [key |-> key, table |-> table, column |-> cond.column,
                         values |-> SetAddAll(<<>>, cond.values)])
       ELSE map

AddCondition(map, cond, tables) ==
    LET table == InferTable(cond, tables)
        key == KeyOf(table, cond.column)
        withKey == IF MapIndex(map, key) = 0
                   THEN Append(map, [key |-> key, table |-> table,
                                     column |-> cond.column, values |-> <<>>])
                   ELSE map
        j == MapIndex(withKey, key)
    IN [withKey EXCEPT ![j].values = SetAddAll(@, cond.values)]

RECURSIVE AddConditions(_, _, _)
AddConditions(map, conditions, tables) ==
    IF conditions = <<>> THEN map
    ELSE AddConditions(AddCondition(map, Head(conditions), tables),
                       Tail(conditions), tables)

\* one iteration of the loop on a parsed line
Merge(a, e) ==
    [allTables |-> SetAddAll(a.allTables, e.tables),
     conditionMap |-> AddConditions(a.conditionMap, e.conditions, e.tables)]

FoldLine(a, line, k) == Merge(a, Extracted[line, k])

EmptyAcc == [allTables |-> <<>>, conditionMap |-> <<>>]

\* Array.from(allTables) without the sort
sortNamesNone(names) == names

\* Array.from(allTables).sort()
sortNames(names) ==
    LET sorted == sort([j \in 1..Len(names) |-> Str(names[j])])
    IN [j \in 1..Len(sorted) |-> sorted[j].str]

\* the object returned by analyzeFile
AnalysisResult(a, ls) ==
    [tables |-> sortNames(a.allTables),
     conditions |-> [j \in 1..Len(a.conditionMap) |->
                       Cond(a.conditionMap[j].table, a.conditionMap[j].column,
                            Undefined, sort(a.conditionMap[j].values))],
     queryCount |-> Len(ls)]

(***************************************************************************)
(* generateJailerConditions                                                *)
(***************************************************************************)
\* typeof v === 'string' ? `'${v}'` : v, then converted to a string
Quoted(v) == IF v.kind = "string" THEN "'" \o v.str \o "'" ELSE ToStr(v)

\* the same for values[0], which is undefined for an empty list
QuotedFirst(values) == IF values = <<>> THEN "undefined" ELSE Quoted(values[1])

\* values.map(quote).join(', '): null elements contribute the empty string
RECURSIVE JoinQuoted(_)
JoinQuoted(values) ==
    IF values = <<>> THEN ""
    ELSE LET h == IF Head(values).kind = "null" THEN "" ELSE Quoted(Head(values))
         IN IF Len(values) = 1 THEN h ELSE h \o ", " \o JoinQuoted(Tail(values))

\* ConditionString without the BETWEEN branch
ConditionStringNoBetween(cond) ==
    LET values == cond.values
        operator == IF cond.operator = Undefined THEN "=" ELSE cond.operator
    IN IF operator = "IS NULL" \/ operator = "IS NOT NULL"
       THEN cond.column \o " " \o operator
       ELSE IF operator = "LIKE" \/ operator = "ILIKE"
       THEN cond.column \o " " \o operator \o " " \o QuotedFirst(values)
       ELSE IF operator = "NOT IN"
       THEN cond.column \o " NOT IN (" \o JoinQuoted(values) \o ")"
       ELSE IF operator \in {">=", "<=", ">", "<", "!=", "<>"}
       THEN cond.column \o " " \o operator \o " " \o QuotedFirst(values)
       ELSE IF Len(values) = 1
       THEN cond.column \o " = " \o Quoted(values[1])
       ELSE cond.column \o " IN (" \o JoinQuoted(values) \o ")"

\* the body of the loop: operator = cond.operator || '=' and the branches
ConditionString(cond) ==
    LET values == cond.values
        operator == IF cond.operator = Undefined THEN "=" ELSE cond.operator
    IN IF operator = "BETWEEN" /\ Len(values) = 2
       THEN cond.column \o " BETWEEN " \o Quoted(values[1]) \o " AND " \o Quoted(values[2])
       ELSE IF operator = "IS NULL" \/ operator = "IS NOT NULL"
       THEN cond.column \o " " \o operator
       ELSE IF operator = "LIKE" \/ operator = "ILIKE"
       THEN cond.column \o " " \o operator \o " " \o QuotedFirst(values)
       ELSE IF operator = "NOT IN"
       THEN cond.column \o " NOT IN (" \o JoinQuoted(values) \o ")"
       ELSE IF operator \in {">=", "<=", ">", "<", "!=", "<>"}
       THEN cond.column \o " " \o operator \o " " \o QuotedFirst(values)
       ELSE IF Len(values) = 1
       THEN cond.column \o " = " \o Quoted(values[1])
       ELSE cond.column \o " IN (" \o JoinQuoted(values) \o ")"

\* jailerConditions without the skip of conditions that have no table
RECURSIVE jailerConditionsAll(_)
jailerConditionsAll(conditions) ==
    IF conditions = <<>> THEN <<>>
    ELSE <<[table |-> Head(conditions).table,
            condition |-> ConditionString(Head(conditions))]>>
         \o jailerConditionsAll(Tail(conditions))

\* the loop over analysis.conditions
RECURSIVE jailerConditions(_)
jailerConditions(conditions) ==
    IF conditions = <<>> THEN <<>>
    ELSE (IF Head(conditions).table = Null THEN <<>>
          ELSE <<[table |-> Head(conditions).table,
                  condition |-> ConditionString(Head(conditions))]>>)
         \o jailerConditions(Tail(conditions))

generateJailerConditions(analysis) == jailerConditions(analysis.conditions)

Files == UNION {[1..n -> Pool] : n \in 0..MaxLines}

(***************************************************************************)
(* analyzeFile followed by generateJailerConditions, as the callers in     *)
(* bin/seedify.js run them.                                                *)
(***************************************************************************)
VARIABLES content, pc, lines, lineNo, acc, result, error, rendered

\* a direct call of one exported function: its arguments and what it returned
VARIABLES call, returned

\* the analyzeFile calls in flight together: the frame of each
VARIABLES tasks

\* the capturer module (src/capture/index.js), the pg client it patches, the
\* dump call in flight and the files it writes
VARIABLES capturedQueries, isCapturing, originalQuery, pgQuery, executed, now,
          dumping, files, copy

\* the query method a caller read from a client and kept
VARIABLES held

avars == <<content, pc, lines, lineNo, acc, result, error, rendered>>
fvars == <<call, returned, tasks>>
cvars == <<capturedQueries, isCapturing, originalQuery, pgQuery, executed, now,
           dumping, files, copy, held>>
vars == <<avars, fvars, cvars>>

\* pg.Client.prototype.query as the pg module defines it, and the function
\* start() installs in its place
Original == "Client.prototype.query"
Patched == "patchedQuery"

\* no dump call was made.  A call keeps where it is, its argument, the
\* buffer as it was when the call was made, the text it builds, the count
\* it logs and the error it rejects with
NoDump == [pc |-> "idle", filePath |-> Undefined, atCall |-> <<>>, data |-> <<>>,
           reported |-> 0, error |-> ""]

\* the capturer module as loaded: lines 8-10
CapturerLoaded ==
    /\ capturedQueries = <<>>
    /\ isCapturing = FALSE
    /\ originalQuery = Null
    /\ pgQuery = Original
    /\ executed = <<>>
    /\ now = 1
    /\ dumping = NoDump
    /\ files = {}
    /\ copy = <<>>
    /\ held = Null

\* no function is called directly
NoCall == [fn |-> "none"]
NoTasks == tasks = <<>>
NoDirectCall == call = NoCall /\ returned = <<>> /\ NoTasks

Init ==
    /\ content \in Files
    /\ pc = "read"
    /\ lines = <<>>
    /\ lineNo = 1
    /\ acc = EmptyAcc
    /\ result = <<>>
    /\ error = ""
    /\ rendered = <<>>
    /\ NoDirectCall
    /\ CapturerLoaded

\* await fs.readFile(...); content.trim().split('\n').filter(Boolean)
ReadFile ==
    /\ pc = "read"
    /\ lines' = readLines(content)
    /\ pc' = "loop"
    /\ UNCHANGED <<content, lineNo, acc, result, error, rendered, fvars, cvars>>

\* one iteration of the loop on a line that parses
ProcessLine ==
    /\ pc = "loop"
    /\ lineNo <= Len(lines)
    /\ IsJson(lines[lineNo])
    /\ acc' = FoldLine(acc, lines[lineNo], lineNo)
    /\ lineNo' = lineNo + 1
    /\ UNCHANGED <<content, pc, lines, result, error, rendered, fvars, cvars>>

\* ParseError that skips the malformed line and continues
ParseErrorSkip ==
    /\ pc = "loop"
    /\ lineNo <= Len(lines)
    /\ ~IsJson(lines[lineNo])
    /\ lineNo' = lineNo + 1
    /\ UNCHANGED <<content, pc, lines, acc, result, error, rendered, fvars, cvars>>

\* JSON.parse throws: the promise of analyzeFile rejects
ParseError ==
    /\ pc = "loop"
    /\ lineNo <= Len(lines)
    /\ ~IsJson(lines[lineNo])
    /\ pc' = "rejected"
    /\ error' = "SyntaxError"
    /\ UNCHANGED <<content, lines, lineNo, acc, result, rendered, fvars, cvars>>

\* the loop is over: sort and return
Return ==
    /\ pc = "loop"
    /\ lineNo > Len(lines)
    /\ result' = <<AnalysisResult(acc, lines)>>
    /\ pc' = "done"
    /\ UNCHANGED <<content, lines, lineNo, acc, error, rendered, fvars, cvars>>

\* generateJailerConditions(analysis)
Render ==
    /\ pc = "done"
    /\ rendered' = generateJailerConditions(result[1])
    /\ pc' = "rendered"
    /\ UNCHANGED <<content, lines, lineNo, acc, result, error, fvars, cvars>>

Next == ReadFile \/ ProcessLine \/ ParseError \/ Return \/ Render

Spec == Init /\ [][Next]_vars

\* the whole of analyzeFile on lines that all parse
RECURSIVE foldLines(_, _, _)
foldLines(accumulated, ls, k) ==
    IF k > Len(ls) THEN accumulated
    ELSE foldLines(FoldLine(accumulated, ls[k], k), ls, k + 1)

analyzeLines(ls) == AnalysisResult(foldLines(EmptyAcc, ls, 1), ls)

(***************************************************************************)
(* Properties.                                                             *)
(***************************************************************************)
Returned == pc \in {"done", "rendered"}
Analysis == result[1]

\* the conditions extracted from a line, each with the table it has after
\* inference, in extraction order
LineConditions(line, k) ==
    LET tables == Extracted[line, k].tables
        conds == Extracted[line, k].conditions
    IN [j \in 1..Len(conds) |->
          [conds[j] EXCEPT !.table = IF conds[j].table = Null /\ tables # <<>>
                                     THEN tables[1] ELSE conds[j].table]]

\* all conditions extracted in the session, in processing order
SessionConditions == Flatten([k \in 1..Len(lines) |-> LineConditions(lines[k], k)])

SeqToSet(seq) == {seq[j] : j \in 1..Len(seq)}

\* C1: a session whose only line is SELECT * FROM t WHERE c = $1 with
\* params [v], v a number, is analysed to tables [t], queryCount 1 and the
\* single condition {table t, column c, values [v]}, which is rendered as
\* the single entry {table t, condition "c = v"}.
C1_SingleEquality ==
    \A t \in {"users", "_"}, c \in {"id"}, v \in {9, 42} :
        lines = <<EqLine(t, c, Num(v))>> =>
            /\ Returned =>
                 /\ Analysis.tables = <<t>>
                 /\ Analysis.queryCount = 1
                 /\ Len(Analysis.conditions) = 1
                 /\ Analysis.conditions[1].table = t
                 /\ Analysis.conditions[1].column = c
                 /\ Analysis.conditions[1].values = <<Num(v)>>
            /\ pc = "rendered" =>
                 rendered = <<[table |-> t, condition |-> c \o " = " \o ToString(v)]>>

C1_Witness ==
    /\ pc = "rendered"
    /\ content = <<EqLine("users", "id", Num(42))>>
    /\ rendered = <<[table |-> "users", condition |-> "id = 42"]>>

\* the operator of the first condition of the session extracted for the
\* pair (table, column)
FirstOperator(table, column) ==
    LET sc == SessionConditions
        hits == {j \in 1..Len(sc) : sc[j].table = table /\ sc[j].column = column}
    IN IF hits = {} THEN Undefined
       ELSE sc[CHOOSE j \in hits : \A h \in hits : j <= h].operator

\* C2: every aggregated condition carries the operator of the first
\* extracted condition that was merged into its (table-or-unset, column)
\* key; created_at >= $1 AND created_at < $2 aggregates to operator >=.
C2_FirstOperatorKept ==
    Returned =>
        \A j \in 1..Len(Analysis.conditions) :
            Analysis.conditions[j].operator
                = FirstOperator(Analysis.conditions[j].table,
                                Analysis.conditions[j].column)

\* C3: the single line SELECT * FROM users WHERE deleted_at IS NULL yields
\* the condition {table users, column deleted_at, operator IS NULL,
\* values []}, rendered as exactly "deleted_at IS NULL".
C3_IsNullScenario ==
    (lines = <<IsNullLine>> /\ pc = "rendered") =>
        /\ Analysis.conditions = <<Cond("users", "deleted_at", "IS NULL", <<>>)>>
        /\ rendered = <<[table |-> "users", condition |-> "deleted_at IS NULL"]>>

\* C4: the single line SELECT * FROM orders WHERE status NOT IN ($1,$2,$3)
\* with params ["cancelled","deleted","archived"] yields a status condition
\* with operator NOT IN and 3 values, rendered as exactly
\* "status NOT IN ('cancelled', 'deleted', 'archived')".
C4_NotInScenario ==
    (lines = <<NotInLine>> /\ pc = "rendered") =>
        /\ \E j \in 1..Len(Analysis.conditions) :
              /\ Analysis.conditions[j].column = "status"
              /\ Analysis.conditions[j].operator = "NOT IN"
              /\ Len(Analysis.conditions[j].values) = 3
        /\ \E j \in 1..Len(rendered) :
              rendered[j].condition
                  = "status NOT IN ('cancelled', 'deleted', 'archived')"

\* C5: every extracted condition without a table is assigned the first
\* table extracted from the same line, never one of another line; when the
\* line yields no tables it stays without a table through aggregation and
\* produces no rendered condition.
C5_TableInference ==
    Returned =>
        /\ \A k \in 1..Len(lines) :
             LET tables == Extracted[lines[k], k].tables
                 conds == Extracted[lines[k], k].conditions
                 expected == IF tables # <<>> THEN tables[1] ELSE Null
             IN \A j \in 1..Len(conds) :
                    conds[j].table = Null =>
                        \E a \in SeqToSet(Analysis.conditions) :
                            /\ a.table = expected
                            /\ a.column = conds[j].column
                            /\ SeqToSet(conds[j].values) \subseteq SeqToSet(a.values)
        /\ pc = "rendered" =>
             Len(rendered) = Cardinality({j \in 1..Len(Analysis.conditions) :
                                             Analysis.conditions[j].table # Null})

\* C6: the aggregated conditions have pairwise distinct (table-or-unset,
\* column) pairs, and the values of each are exactly the duplicate-free
\* union of the values of all extracted conditions of the session that map
\* to that pair.
C6_ExactUnion ==
    Returned =>
        LET agg == Analysis.conditions
            sc == SessionConditions
        IN /\ \A i, j \in 1..Len(agg) :
                  (agg[i].table = agg[j].table /\ agg[i].column = agg[j].column)
                      => i = j
           /\ \A j \in 1..Len(agg) :
                  /\ SeqToSet(agg[j].values)
                       = UNION {SeqToSet(sc[h].values) :
                                  h \in {h \in 1..Len(sc) :
                                            /\ sc[h].table = agg[j].table
                                            /\ sc[h].column = agg[j].column}}
                  /\ Cardinality(SeqToSet(agg[j].values)) = Len(agg[j].values)
           /\ \A h \in 1..Len(sc) :
                  \E j \in 1..Len(agg) :
                      agg[j].table = sc[h].table /\ agg[j].column = sc[h].column

\* every condition extracted in the session names its table itself
AllExplicit ==
    \A k \in 1..Len(lines) :
        LET conds == Extracted[lines[k], k].conditions
        IN \A j \in 1..Len(conds) : conds[j].table # Null

\* the aggregated conditions as a set of (table, column, value set)
ConditionSet(conditions) ==
    {[table |-> c.table, column |-> c.column, values |-> SeqToSet(c.values)] :
        c \in SeqToSet(conditions)}

\* C7: if every extracted condition carries an explicit table, analysing
\* the same lines in any other order yields the same set of aggregated
\* conditions (same keys, same value sets).
C7_OrderIndependent ==
    (Returned /\ AllExplicit) =>
        \A p \in Permutations(1..Len(lines)) :
            LET permuted == [k \in 1..Len(lines) |-> lines[p[k]]]
            IN ConditionSet(analyzeLines(permuted).conditions)
                 = ConditionSet(Analysis.conditions)

C7_Witness ==
    /\ pc = "done"
    /\ AllExplicit
    /\ lines = <<TwoLiteralsLine, BeginLine, LiteralLine>>
    /\ Len(Analysis.conditions) = 2
    /\ Analysis.conditions[2].values = <<Num(10), Num(9)>>

\* C8: queryCount is the number of lines processed: every line holding a
\* record is parsed and counted once, also when it yields no tables and no
\* conditions, and empty lines are skipped without failing the analysis.
C8_QueryCount ==
    /\ Returned =>
         /\ Analysis.queryCount = lineNo - 1
         /\ Analysis.queryCount
              = Cardinality({k \in 1..Len(content) : IsJson(content[k])})
    /\ pc = "rejected" =>
         \E k \in 1..Len(content) : content[k].kind \notin {"json", "empty"}

C8_Witness ==
    /\ pc = "done"
    /\ content = <<BeginLine, EmptyLine, EqLine("users", "id", Num(42))>>
    /\ Analysis.queryCount = 2
    /\ Len(Analysis.conditions) = 1

\* the lines of the trimmed input that JSON.parse rejects
Unparsable ==
    {k \in 1..Len(trim(content)) : trim(content)[k].kind \in {"bad", "blank"}}

\* the number of records before line k of the trimmed input
RecordsBefore(k) == Cardinality({h \in 1..(k - 1) : IsJson(trim(content)[h])})

\* C9: if a non-empty line of the input is not valid JSON, analyzeFile
\* rejects with the parse error and returns no result, however many valid
\* lines precede that line; the lines after it are not processed.
C9_MalformedLineRejects ==
    /\ Unparsable # {} =>
         /\ ~Returned
         /\ result = <<>>
         /\ pc = "loop" => lineNo <= Len(lines)
         /\ \A k \in Unparsable :
                lineNo - 1 <= RecordsBefore(k)
    /\ pc = "rejected" =>
         /\ Unparsable # {}
         /\ error = "SyntaxError"
         /\ \E k \in Unparsable :
                lineNo - 1 = RecordsBefore(k)

C9_Witness ==
    /\ pc = "rejected"
    /\ content = <<EqLine("users", "id", Num(42)), BadLine, BeginLine>>
    /\ lineNo = 2
    /\ result = <<>>

\* the aggregated conditions that have a table
Resolved(c) == c.table # Null

\* C10: generateJailerConditions emits exactly one entry for each
\* aggregated condition with a resolved table, in the order of
\* analysis.conditions, nothing for a condition without a table, and does
\* not fail on one.
C10_RenderResolvedOnly ==
    /\ pc = "done" => ENABLED Render
    /\ pc = "rendered" =>
         LET resolved == SelectSeq(Analysis.conditions, Resolved)
         IN /\ Len(rendered) = Len(resolved)
            /\ \A j \in 1..Len(rendered) :
                   /\ rendered[j].table = resolved[j].table
                   /\ rendered[j].condition = ConditionString(resolved[j])

C10_Witness ==
    /\ pc = "rendered"
    /\ content = <<NoTableLine, DateRangeLine, EqLine("users", "id", Num(42))>>
    /\ Len(Analysis.conditions) = 3
    /\ Analysis.conditions[1].table = Null
    /\ Len(rendered) = 2
    /\ rendered[1].table = "orders"
    /\ rendered[2] = [table |-> "users", condition |-> "id = 42"]

(***************************************************************************)
(* Direct calls of generateJailerConditions on analysis objects built by   *)
(* the caller.                                                             *)
(***************************************************************************)
MaxValues == 3

RenderValues == {Num(9), Num(10), Str("alice"), Str("o'brien")}

\* cond.operator: absent, empty, the operators extractIdConditions emits and
\* two it never emits
RenderOperators ==
    {Undefined, "", "=", "IN", "BETWEEN", "IS NULL", "IS NOT NULL", "LIKE",
     "ILIKE", "NOT IN", ">=", "<=", ">", "<", "!=", "<>"}

ValueLists == UNION {[1..n -> RenderValues] : n \in 0..MaxValues}

RenderConditions ==
    {Cond(t, "status", op, vs) :
        t \in {"orders", Null}, op \in RenderOperators, vs \in ValueLists}

\* the analyzer is not running
AnalyzerIdle ==
    /\ content = <<>>
    /\ pc = "idle"
    /\ lines = <<>>
    /\ lineNo = 1
    /\ acc = EmptyAcc
    /\ result = <<>>
    /\ error = ""
    /\ rendered = <<>>

InitRender ==
    /\ AnalyzerIdle
    /\ CapturerLoaded
    /\ call \in {[fn |-> "generateJailerConditions",
                  analysis |-> [conditions |-> <<c>>]] : c \in RenderConditions}
    /\ NoTasks
    /\ returned = <<>>

CallGenerateJailerConditions ==
    /\ call.fn = "generateJailerConditions"
    /\ returned = <<>>
    /\ returned' = <<generateJailerConditions(call.analysis)>>
    /\ UNCHANGED <<call, tasks, avars, cvars>>

NextRender == CallGenerateJailerConditions

SpecRender == InitRender /\ [][NextRender]_vars

\* a value as the rendering shows it: strings in single quotes, numbers bare
C11_Shown(v) == IF v.kind = "string" THEN "'" \o v.str \o "'" ELSE ToString(v.num)

RECURSIVE C11_List(_)
C11_List(values) ==
    IF values = <<>> THEN ""
    ELSE IF Len(values) = 1 THEN C11_Shown(values[1])
    ELSE C11_Shown(values[1]) \o ", " \o C11_List(Tail(values))

C11_Rendered == returned[1][1].condition
C11_Cond == call.analysis.conditions[1]

\* C11: for a condition with a resolved table generateJailerConditions
\* renders by operator: BETWEEN with exactly 2 values gives
\* col BETWEEN v1 AND v2; IS NULL / IS NOT NULL give col OP; LIKE, ILIKE and
\* the six comparison operators give col OP v for the first value; NOT IN
\* gives col NOT IN (v1, v2, ...); an absent or any other operator (also
\* BETWEEN with another value count) gives col = v for exactly one value and
\* col IN (v1, v2, ...) otherwise; strings are single-quoted without
\* escaping and numbers are bare.
C11_RenderByOperator ==
    (call.fn = "generateJailerConditions" /\ returned # <<>>
        /\ C11_Cond.table # Null) =>
        LET c == C11_Cond
            op == c.operator
            vs == c.values
        IN /\ Len(returned[1]) = 1
           /\ returned[1][1].table = c.table
           /\ (op = "BETWEEN" /\ Len(vs) = 2) =>
                C11_Rendered = c.column \o " BETWEEN " \o C11_Shown(vs[1])
                                  \o " AND " \o C11_Shown(vs[2])
           /\ op \in {"IS NULL", "IS NOT NULL"} =>
                C11_Rendered = c.column \o " " \o op
           /\ (op \in {"LIKE", "ILIKE", ">=", "<=", ">", "<", "!=", "<>"}
                 /\ vs # <<>>) =>
                C11_Rendered = c.column \o " " \o op \o " " \o C11_Shown(vs[1])
           /\ op = "NOT IN" =>
                C11_Rendered = c.column \o " NOT IN (" \o C11_List(vs) \o ")"
           /\ (op \notin {"IS NULL", "IS NOT NULL", "LIKE", "ILIKE", ">=", "<=",
                          ">", "<", "!=", "<>", "NOT IN"}
                 /\ ~(op = "BETWEEN" /\ Len(vs) = 2)) =>
                C11_Rendered = IF Len(vs) = 1
                               THEN c.column \o " = " \o C11_Shown(vs[1])
                               ELSE c.column \o " IN (" \o C11_List(vs) \o ")"

C11_Witness ==
    /\ call.fn = "generateJailerConditions"
    /\ C11_Cond = Cond("orders", "status", "BETWEEN", <<Num(9), Str("o'brien")>>)
    /\ returned = << <<[table |-> "orders",
                        condition |-> "status BETWEEN 9 AND 'o'brien'"]>> >>

(***************************************************************************)
(* Direct calls of extractIdConditions: one predicate after                *)
(* SELECT * FROM orders WHERE, with every placeholder number from $0 to    *)
(* one past the end of the parameter list.                                 *)
(***************************************************************************)
MaxParams == 2

PlaceholderNumbers == 0..(MaxParams + 1)

ParamValues == {Num(42), Str("alice"), Arr(<<>>, 0), Arr(<<Num(1), Num(2)>>, 0)}

ParamLists == {<<>>} \cup [1..MaxParams -> ParamValues]

\* the column of a predicate, bare (q = 0) or qualified with orders (q = 1)
ColumnRef(q, c) == IF q = 1 THEN <<W("orders"), Sym("."), W(c)>> ELSE <<W(c)>>

WherePredicate(pred) == SelectFrom("orders") \o Where \o pred

\* c = $n
EqualQuery(q, c, n) == WherePredicate(ColumnRef(q, c) \o <<SP, Sym("="), SP, PH(n)>>)
\* c = ANY($n)
AnyQuery(q, c, n) ==
    WherePredicate(ColumnRef(q, c)
                   \o <<SP, Sym("="), SP, W("ANY"), Sym("("), PH(n), Sym(")")>>)
\* c >= $n
CompareQuery(q, c, n) == WherePredicate(ColumnRef(q, c) \o <<SP, Sym(">="), SP, PH(n)>>)
\* c LIKE $n
LikeQuery(q, c, n) == WherePredicate(ColumnRef(q, c) \o <<SP, W("LIKE"), SP, PH(n)>>)
\* c IN ($n, $m)
InQuery(q, c, n, m) ==
    WherePredicate(ColumnRef(q, c)
                   \o <<SP, W("IN"), SP, Sym("("), PH(n), Sym(","), SP, PH(m), Sym(")")>>)
\* c NOT IN ($n, $m)
NotInQuery(q, c, n, m) ==
    WherePredicate(ColumnRef(q, c)
                   \o <<SP, W("NOT"), SP, W("IN"), SP, Sym("("), PH(n), Sym(","), SP,
                        PH(m), Sym(")")>>)
\* c BETWEEN $n AND $m
BetweenQuery(q, c, n, m) ==
    WherePredicate(ColumnRef(q, c)
                   \o <<SP, W("BETWEEN"), SP, PH(n), SP, W("AND"), SP, PH(m)>>)
\* c IS NULL, c IS NOT NULL
IsNullQuery(q, c) == WherePredicate(ColumnRef(q, c) \o <<SP, W("IS"), SP, W("NULL")>>)
IsNotNullQuery(q, c) ==
    WherePredicate(ColumnRef(q, c) \o <<SP, W("IS"), SP, W("NOT"), SP, W("NULL")>>)
\* orders.c = 1, orders.c = 'alice'
NumberLiteralQuery(c, n) ==
    WherePredicate(ColumnRef(1, c) \o <<SP, Sym("="), SP, NumLit(n)>>)
StringLiteralQuery(c, v) ==
    WherePredicate(ColumnRef(1, c) \o <<SP, Sym("="), SP, StrLit(v)>>)

SinglePlaceholderQueries ==
    {EqualQuery(q, "status", n) : q \in 0..1, n \in PlaceholderNumbers}
    \cup {AnyQuery(q, "status", n) : q \in 0..1, n \in PlaceholderNumbers}
    \cup {CompareQuery(q, "status", n) : q \in 0..1, n \in PlaceholderNumbers}
    \cup {LikeQuery(q, "status", n) : q \in 0..1, n \in PlaceholderNumbers}

ListQueries ==
    {InQuery(q, "status", n, m) : q \in 0..1, n \in PlaceholderNumbers,
                                  m \in PlaceholderNumbers}
    \cup {NotInQuery(q, "status", n, m) : q \in 0..1, n \in PlaceholderNumbers,
                                          m \in PlaceholderNumbers}

BetweenQueries ==
    {BetweenQuery(q, "status", n, m) : q \in 0..1, n \in PlaceholderNumbers,
                                       m \in PlaceholderNumbers}

LiteralColumns == {"id", "user_id", "status"}

LiteralQueries ==
    {IsNullQuery(q, "status") : q \in 0..1}
    \cup {IsNotNullQuery(q, "status") : q \in 0..1}
    \cup {NumberLiteralQuery(c, 1) : c \in LiteralColumns}
    \cup {StringLiteralQuery(c, "alice") : c \in LiteralColumns}

\* status >= $n AND id = $m, and the same predicates in the other order
CompareThenEqualQuery(n, m) ==
    WherePredicate(<<W("status"), SP, Sym(">="), SP, PH(n), SP, W("AND"), SP,
                     W("id"), SP, Sym("="), SP, PH(m)>>)
EqualThenCompareQuery(n, m) ==
    WherePredicate(<<W("id"), SP, Sym("="), SP, PH(m), SP, W("AND"), SP,
                     W("status"), SP, Sym(">="), SP, PH(n)>>)

TwoPredicateQueries ==
    {CompareThenEqualQuery(n, m) : n \in 1..MaxParams, m \in 1..MaxParams}
    \cup {EqualThenCompareQuery(n, m) : n \in 1..MaxParams, m \in 1..MaxParams}

ExtractQueries ==
    SinglePlaceholderQueries \cup ListQueries \cup BetweenQueries \cup LiteralQueries
    \cup TwoPredicateQueries

InitExtract ==
    /\ AnalyzerIdle
    /\ CapturerLoaded
    /\ call \in {[fn |-> "extractIdConditions", query |-> query, params |-> params] :
                    query \in ExtractQueries, params \in ParamLists}
    /\ NoTasks
    /\ returned = <<>>

CallExtractIdConditions ==
    /\ call.fn = "extractIdConditions"
    /\ returned = <<>>
    /\ returned' = <<extractIdConditions(call.query, call.params)>>
    /\ UNCHANGED <<call, tasks, avars, cvars>>

NextExtract == CallExtractIdConditions

SpecExtract == InitExtract /\ [][NextExtract]_vars

ExtractReturned == call.fn = "extractIdConditions" /\ returned # <<>>
Conditions == returned[1]

\* C12: every condition extractIdConditions emits has an empty values list
\* if and only if its operator is IS NULL or IS NOT NULL, for every query
\* and parameter list, array parameters of = ANY($N) included.
C12_EmptyIffNullCheck ==
    ExtractReturned =>
        \A j \in 1..Len(Conditions) :
            (Conditions[j].values = <<>>)
                <=> (Conditions[j].operator \in {"IS NULL", "IS NOT NULL"})

\* the values params[N-1] of the placeholders ns that are in range, in order
RECURSIVE C13_Resolved(_)
C13_Resolved(ns) ==
    IF ns = <<>> THEN <<>>
    ELSE (IF Head(ns) >= 1 /\ Head(ns) <= Len(call.params)
          THEN <<call.params[Head(ns)]>> ELSE <<>>) \o C13_Resolved(Tail(ns))

\* the placeholder numbers of the query, in text order
C13_Placeholders ==
    LET at == SelectSeq([j \in 1..Len(call.query) |-> j],
                        LAMBDA j : call.query[j].k = "ph")
    IN [j \in 1..Len(at) |-> call.query[at[j]].n]

C13_SingleQuery == call.query \in SinglePlaceholderQueries
C13_ListQuery == call.query \in ListQueries
C13_AnyQuery == \E q \in 0..1, n \in PlaceholderNumbers :
                    call.query = AnyQuery(q, "status", n)

\* out-of-range placeholders emit nothing; lists keep their resolved entries
C13_OutOfRange ==
    /\ (C13_SingleQuery /\ C13_Resolved(C13_Placeholders) = <<>>) => Conditions = <<>>
    /\ C13_ListQuery =>
         /\ \A j \in 1..Len(Conditions) :
                Conditions[j].values = C13_Resolved(C13_Placeholders)
         /\ C13_Resolved(C13_Placeholders) = <<>> => Conditions = <<>>
         /\ C13_Resolved(C13_Placeholders) # <<>> => Conditions # <<>>
    /\ (C13_SingleQuery /\ C13_Resolved(C13_Placeholders) # <<>>) => Conditions # <<>>

\* C13 as stated: placeholders resolve 1-indexed: every value of a condition
\* emitted by a placeholder family equals params[N-1] for a placeholder $N
\* of the matched predicate; a single-placeholder predicate with N out of
\* range emits no condition, and an IN / NOT IN list drops its out-of-range
\* entries and emits nothing when none remain.
C13_EveryValueIsAParameter ==
    (ExtractReturned /\ (C13_SingleQuery \/ C13_ListQuery)) =>
        /\ \A j \in 1..Len(Conditions) :
               \A i \in 1..Len(Conditions[j].values) :
                   \E h \in 1..Len(C13_Placeholders) :
                       /\ C13_Placeholders[h] \in 1..Len(call.params)
                       /\ Conditions[j].values[i] = call.params[C13_Placeholders[h]]
        /\ C13_OutOfRange

\* C13, amended: as stated, except that = ANY($N) whose params[N-1] is an
\* array emits the elements of that array as the values.
C13_PlaceholdersResolveOneIndexed ==
    (ExtractReturned /\ (C13_SingleQuery \/ C13_ListQuery)) =>
        /\ \A j \in 1..Len(Conditions) :
               LET p == C13_Resolved(C13_Placeholders)
               IN IF C13_AnyQuery /\ p # <<>> /\ p[1].kind = "array"
                  THEN Conditions[j].values = p[1].arr
                  ELSE \A i \in 1..Len(Conditions[j].values) :
                          \E h \in 1..Len(p) : Conditions[j].values[i] = p[h]
        /\ C13_OutOfRange

C13_Witness ==
    /\ ExtractReturned
    /\ call.query = InQuery(0, "status", 3, 2)
    /\ call.params = <<Num(42), Arr(<<Num(1), Num(2)>>, 0)>>
    /\ Conditions = <<Cond(Null, "status", Undefined, <<Arr(<<Num(1), Num(2)>>, 0)>>)>>

\* the conditions with operator BETWEEN, in output order
C14_Between == SelectSeq(Conditions, LAMBDA c : c.operator = "BETWEEN")

\* C14: for every BETWEEN $N AND $M match whose placeholders both resolve,
\* exactly one condition with operator BETWEEN and the two values
\* [params[N-1], params[M-1]] in source order is emitted (the bare and the
\* qualified pattern are separate matches); if either placeholder is
\* unresolved, no BETWEEN condition is emitted.
C14_BetweenBothOrNone ==
    ExtractReturned =>
        \A q \in 0..1, n \in PlaceholderNumbers, m \in PlaceholderNumbers :
            call.query = BetweenQuery(q, "status", n, m) =>
                IF n \in 1..Len(call.params) /\ m \in 1..Len(call.params)
                THEN /\ Len(C14_Between) = 1 + q
                     /\ C14_Between[1].table = Null
                     /\ q = 1 => C14_Between[2].table = "orders"
                     /\ \A j \in 1..Len(C14_Between) :
                            /\ C14_Between[j].column = "status"
                            /\ C14_Between[j].values
                                 = <<call.params[n], call.params[m]>>
                ELSE Conditions = <<>>

C14_Witness ==
    /\ ExtractReturned
    /\ call.query = BetweenQuery(1, "status", 2, 1)
    /\ call.params = <<Num(42), Str("alice")>>
    /\ Len(C14_Between) = 2
    /\ C14_Between[2] = Cond("orders", "status", "BETWEEN", <<Str("alice"), Num(42)>>)

\* C15: a table-qualified integer-literal equality t.c = n emits the
\* condition {table t, column c, values [n]} with n a number for any column
\* c, not only ID-like ones, as the string-literal equality does.
C15_NumberLiteralAnyColumn ==
    ExtractReturned =>
        \A c \in LiteralColumns :
            /\ call.query = NumberLiteralQuery(c, 1) =>
                 \E j \in 1..Len(Conditions) :
                     /\ Conditions[j].table = "orders"
                     /\ Conditions[j].column = c
                     /\ Conditions[j].values = <<Num(1)>>
            /\ call.query = StringLiteralQuery(c, "alice") =>
                 \E j \in 1..Len(Conditions) :
                     /\ Conditions[j].table = "orders"
                     /\ Conditions[j].column = c
                     /\ Conditions[j].values = <<Str("alice")>>

(***************************************************************************)
(* Direct calls of extractTableNames on statements that name a table after *)
(* FROM, in three spellings of the keyword.                                *)
(***************************************************************************)
FromWords == {"FROM", "from", "From"}

\* what follows FROM: a name, a schema-qualified name or a reserved word
TableRefs ==
    {<<W("users")>>, <<W("Users")>>, <<W("orders")>>, <<W("_")>>,
     <<W("public"), Sym("."), W("Users")>>,
     <<W("NULL")>>, <<W("select")>>, <<W("SET")>>}

\* SELECT * FROM t
SelectQuery(f, t) == <<W("SELECT"), SP, Sym("*"), SP, W(f), SP>> \o t
\* SELECT * FROM t JOIN t ON id = user_id
SelfJoinQuery(f, t) ==
    SelectQuery(f, t) \o <<SP, W("JOIN"), SP>> \o t
    \o <<SP, W("ON"), SP, W("id"), SP, Sym("="), SP, W("user_id")>>
\* SELECT * FROM orders JOIN users ON id = user_id WHERE status IS DISTINCT FROM t
DistinctFromQuery(f, t) ==
    <<W("SELECT"), SP, Sym("*"), SP, W("FROM"), SP, W("orders"), SP, W("JOIN"), SP,
      W("users"), SP, W("ON"), SP, W("id"), SP, Sym("="), SP, W("user_id"), WS(2),
      W("WHERE"), SP, W("status"), SP, W("IS"), SP, W("DISTINCT"), SP, W(f), SP>> \o t
\* DELETE FROM t WHERE id = $1
DeleteQuery(f, t) ==
    <<W("DELETE"), WS(2), W(f), SP>> \o t \o Where \o <<W("id"), SP, Sym("="), SP, PH(1)>>
\* UPDATE orders SET status = $1 FROM t WHERE id = $2
UpdateFromQuery(f, t) ==
    <<W("UPDATE"), SP, W("orders"), SP, W("SET"), SP, W("status"), SP, Sym("="), SP,
      PH(1), SP, W(f), SP>> \o t \o Where \o <<W("id"), SP, Sym("="), SP, PH(2)>>
\* INSERT INTO orders SELECT * FROM t
InsertSelectQuery(f, t) ==
    <<W("INSERT"), SP, W("INTO"), SP, W("orders"), SP>> \o SelectQuery(f, t)

\* SELECT EXTRACT(YEAR FROM created_at) FROM t WHERE id = $1
ExtractFromQuery(f, t) ==
    <<W("SELECT"), SP, W("EXTRACT"), Sym("("), W("YEAR"), SP, W(f), SP, W("created_at"),
      Sym(")"), SP, W(f), SP>> \o t \o Where \o <<W("id"), SP, Sym("="), SP, PH(1)>>

TableQueries ==
    UNION {{SelectQuery(f, t), SelfJoinQuery(f, t), DistinctFromQuery(f, t),
            DeleteQuery(f, t), UpdateFromQuery(f, t), InsertSelectQuery(f, t),
            ExtractFromQuery(f, t)} :
              f \in FromWords, t \in TableRefs}

InitTables ==
    /\ AnalyzerIdle
    /\ CapturerLoaded
    /\ call \in {[fn |-> "extractTableNames", query |-> query] : query \in TableQueries}
    /\ NoTasks
    /\ returned = <<>>

CallExtractTableNames ==
    /\ call.fn = "extractTableNames"
    /\ returned = <<>>
    /\ returned' = <<extractTableNames(call.query)>>
    /\ UNCHANGED <<call, tasks, avars, cvars>>

NextTables == CallExtractTableNames

SpecTables == InitTables /\ [][NextTables]_vars

TablesReturned == call.fn = "extractTableNames" /\ returned # <<>>

\* the positions of the query where the keyword FROM is followed by a name
C16_FromPositions ==
    {p \in 1..(Len(call.query) - 2) :
        /\ call.query[p].k = "w" /\ call.query[p].s \in FromWords
        /\ call.query[p + 1].k = "ws"
        /\ call.query[p + 2].k = "w"}

\* the name after the FROM at position p, schema-qualified if the text is
C16_NameAt(p) ==
    IF p + 4 <= Len(call.query) /\ call.query[p + 3] = Sym(".")
       /\ call.query[p + 4].k = "w"
    THEN toLowerCase(call.query[p + 2].s) \o "." \o toLowerCase(call.query[p + 4].s)
    ELSE toLowerCase(call.query[p + 2].s)

C16_Count(name) == Cardinality({j \in 1..Len(returned[1]) : returned[1][j] = name})

\* C16: for any query text containing the keyword FROM, in any letter case,
\* followed by a name t that is not a reserved word, the output of
\* extractTableNames contains lower-cased t exactly once, and the output
\* never contains a word of the reserved-word set.
C16_FromTableListed ==
    TablesReturned =>
        /\ \A p \in C16_FromPositions :
               C16_NameAt(p) \notin keywords => C16_Count(C16_NameAt(p)) = 1
        /\ \A j \in 1..Len(returned[1]) : returned[1][j] \notin keywords

C16_Witness ==
    /\ TablesReturned
    /\ call.query = DistinctFromQuery("From", <<W("NULL")>>)
    /\ returned = << <<"orders", "users">> >>

(***************************************************************************)
(* analyzeFile: the order of the returned tables and values.               *)
(***************************************************************************)
\* the tables extracted from the processed lines
C17_Extracted ==
    UNION {SeqToSet(Extracted[lines[k], k].tables) : k \in 1..Len(lines)}

\* ascending order of the table names of the pool
C17_Rank(name) ==
    CASE name = "_" -> 1 [] name = "orders" -> 2 [] name = "users" -> 3

\* C17: the tables list returned by analyzeFile is exactly the union of the
\* tables extracted from every processed line, without duplicates, in
\* ascending sorted order, whatever the order of the input lines.
C17_TablesSortedUnion ==
    Returned =>
        /\ SeqToSet(Analysis.tables) = C17_Extracted
        /\ \A i, j \in 1..Len(Analysis.tables) :
               i < j => C17_Rank(Analysis.tables[i]) < C17_Rank(Analysis.tables[j])
        /\ \A p \in Permutations(1..Len(lines)) :
               analyzeLines([k \in 1..Len(lines) |-> lines[p[k]]]).tables
                   = Analysis.tables

C17_Witness ==
    /\ pc = "done"
    /\ lines = <<EqLine("users", "id", Num(42)), NotInLine, EqLine("_", "id", Num(9))>>
    /\ Analysis.tables = <<"_", "orders", "users">>

\* C18: the values of each aggregated condition are returned in ascending
\* order, numbers in numeric order (9 before 10), and that order does not
\* depend on the order in which the values were first seen.
C18_ValuesAscending ==
    Returned =>
        /\ \A c \in 1..Len(Analysis.conditions) :
               LET values == Analysis.conditions[c].values
               IN \A i, j \in 1..Len(values) :
                      (i < j /\ values[i].kind = "number" /\ values[j].kind = "number")
                          => values[i].num < values[j].num
        /\ \A p \in Permutations(1..Len(lines)) :
               \A c \in SeqToSet(analyzeLines([k \in 1..Len(lines) |->
                                                  lines[p[k]]]).conditions) :
                   \A d \in SeqToSet(Analysis.conditions) :
                       (c.table = d.table /\ c.column = d.column
                          /\ SeqToSet(c.values) = SeqToSet(d.values))
                           => c.values = d.values

(***************************************************************************)
(* The capturer (src/capture/index.js) and the pg clients it intercepts.   *)
(***************************************************************************)
MaxCalls == 2

Clients == {"client1", "client2"}

\* the arguments of client.query(...): a string with or without a parameter
\* array, or a config object {text, values}
StringArgs(text, params) == <<[type |-> "string", text |-> text, values |-> Undefined],
                              params>>
ConfigArgs(text, values) == <<[type |-> "object", text |-> text, values |-> values],
                              Undefined>>

\* a line break of a query text: white space, like SP
NL == [k |-> "ws", s |-> "\n", n |-> 1]

\* "SELECT *\nFROM users\nWHERE id = $1"
MultiLineQuery ==
    <<W("SELECT"), SP, Sym("*"), NL, W("FROM"), SP, W("users"), NL, W("WHERE"), SP,
      W("id"), SP, Sym("="), SP, PH(1)>>

QueryArgs ==
    {StringArgs(EqQuery("users", "id"), <<Num(42)>>),
     StringArgs(<<>>, Undefined),
     ConfigArgs(MultiLineQuery, <<Num(42)>>)}

\* the calls made: client.query(...) on the first client with every form
\* of the arguments, and the kept function on the second client
QueryCalls(client, args) == client = "client1"

\* the arguments of a call through a kept function
HeldArgs == StringArgs(EqQuery("users", "id"), <<Num(42)>>)

\* lines 30-41: the text and the parameters of a call
queryText(args) == args[1].text
queryParams(args) == IF args[1].type = "string" THEN args[2] ELSE args[1].values

\* lines 44-50: capturedQueries.push(...) if (queryText)
Captured(buffer, args, timestamp) ==
    IF queryText(args) # Undefined /\ queryText(args) # <<>>
    THEN Append(buffer, [query |-> queryText(args),
                         params |-> IF queryParams(args) = Undefined THEN <<>>
                                    ELSE queryParams(args),
                         timestamp |-> timestamp])
    ELSE buffer

\* what the original query method returns for a call
ResultOf(client, args) == [rows |-> <<client, args>>]

\* one invocation of the original method, with what the caller received
Invocation(client, args, toCaller) ==
    [this |-> client, args |-> args, result |-> ResultOf(client, args),
     toCaller |-> toCaller]

\* Captured that pushes a record whatever the text
CapturedAlways(buffer, args, timestamp) ==
    Append(buffer, [query |-> queryText(args),
                    params |-> IF queryParams(args) = Undefined THEN <<>>
                               ELSE queryParams(args),
                    timestamp |-> timestamp])

\* start() without the guard on isCapturing
startUnguarded ==
    /\ originalQuery' = pgQuery
    /\ pgQuery' = Patched
    /\ isCapturing' = TRUE
    /\ UNCHANGED <<capturedQueries, executed, now, dumping, files, copy, held>>
    /\ UNCHANGED <<avars, fvars>>

\* start(): lines 16-58
start ==
    /\ IF isCapturing
       THEN UNCHANGED <<originalQuery, pgQuery, isCapturing>>
       ELSE /\ originalQuery' = pgQuery
            /\ pgQuery' = Patched
            /\ isCapturing' = TRUE
    /\ UNCHANGED <<capturedQueries, executed, now, dumping, files, copy, held>>
    /\ UNCHANGED <<avars, fvars>>

\* stop(): lines 63-78
stop ==
    /\ IF ~isCapturing
       THEN UNCHANGED <<originalQuery, pgQuery, isCapturing>>
       ELSE /\ IF originalQuery # Null
               THEN pgQuery' = originalQuery /\ originalQuery' = Null
               ELSE UNCHANGED <<originalQuery, pgQuery>>
            /\ isCapturing' = FALSE
    /\ UNCHANGED <<capturedQueries, executed, now, dumping, files, copy, held>>
    /\ UNCHANGED <<avars, fvars>>

\* client.query(...args) on a pg client: the method found on the prototype
\* runs; patchedQuery (lines 29-54) records the call and applies
\* originalQuery, which is read when the call is made
query ==
    \E client \in Clients, args \in QueryArgs :
        /\ QueryCalls(client, args)
        /\ now <= MaxCalls
        /\ now' = now + 1
        /\ IF pgQuery = Original
           THEN /\ executed' = Append(executed,
                                      Invocation(client, args, ResultOf(client, args)))
                /\ UNCHANGED capturedQueries
           ELSE IF originalQuery = Original
           THEN /\ capturedQueries' = Captured(capturedQueries, args, now)
                /\ executed' = Append(executed,
                                      Invocation(client, args, ResultOf(client, args)))
           ELSE IF originalQuery = Patched
           THEN \* patchedQuery applies itself until the stack overflows
                /\ capturedQueries' = Captured(Captured(capturedQueries, args, now),
                                               args, now)
                /\ UNCHANGED executed
           ELSE \* originalQuery is null: TypeError after the push
                /\ capturedQueries' = Captured(capturedQueries, args, now)
                /\ UNCHANGED executed
        /\ UNCHANGED <<isCapturing, originalQuery, pgQuery, dumping, files, copy, held>>
        /\ UNCHANGED <<avars, fvars>>

\* the caller reads client.query while the patched method is installed and
\* keeps the function
holdQuery ==
    /\ pgQuery = Patched
    /\ held = Null
    /\ held' = Patched
    /\ UNCHANGED <<capturedQueries, isCapturing, originalQuery, pgQuery, executed, now,
                   dumping, files, copy>>
    /\ UNCHANGED <<avars, fvars>>

\* the caller calls the function it kept, held.call(client, text, params):
\* patchedQuery (lines 29-54) runs whatever the prototype holds by now
queryHeld ==
    /\ held = Patched
    /\ now <= MaxCalls
    /\ now' = now + 1
    /\ capturedQueries' = Captured(capturedQueries, HeldArgs, now)
    /\ IF originalQuery = Original
       THEN executed' = Append(executed,
                               Invocation("client2", HeldArgs,
                                          ResultOf("client2", HeldArgs)))
       ELSE \* originalQuery is null: TypeError after the push
            UNCHANGED executed
    /\ UNCHANGED <<isCapturing, originalQuery, pgQuery, dumping, files, copy, held>>
    /\ UNCHANGED <<avars, fvars>>

\* an array held by the caller of getQueries(): the buffer itself (shared)
\* or an array of its own with its items
Shared == [shared |-> TRUE, items |-> <<>>]
Fresh(items) == [shared |-> FALSE, items |-> items]

\* the items of an array held by the caller
ItemsOf(array) == IF array.shared THEN capturedQueries ELSE array.items

\* getQueries() that returns the buffer itself
getQueriesShared ==
    /\ copy' = <<Shared>>
    /\ UNCHANGED <<capturedQueries, isCapturing, originalQuery, pgQuery, executed, now,
                   dumping, files, held>>
    /\ UNCHANGED <<avars, fvars>>

\* getQueries(): [...capturedQueries], a new array with the elements of the
\* buffer
getQueries ==
    /\ copy' = <<Fresh(capturedQueries)>>
    /\ UNCHANGED <<capturedQueries, isCapturing, originalQuery, pgQuery, executed, now,
                   dumping, files, held>>
    /\ UNCHANGED <<avars, fvars>>

\* a record the caller pushes on the array getQueries() returned
Pushed == [query |-> <<>>, params |-> <<>>, timestamp |-> 0]

\* the caller changes the array getQueries() returned
mutateCopy ==
    /\ copy # <<>>
    /\ \A j \in 1..Len(ItemsOf(copy[1])) : ItemsOf(copy[1])[j] # Pushed
    /\ IF copy[1].shared
       THEN /\ capturedQueries' = Append(capturedQueries, Pushed)
            /\ UNCHANGED copy
       ELSE /\ copy' = <<Fresh(Append(copy[1].items, Pushed))>>
            /\ UNCHANGED capturedQueries
    /\ UNCHANGED <<isCapturing, originalQuery, pgQuery, executed, now, dumping, files, held>>
    /\ UNCHANGED <<avars, fvars>>

\* clear(): capturedQueries.length = 0
clear ==
    /\ capturedQueries' = <<>>
    /\ UNCHANGED <<isCapturing, originalQuery, pgQuery, executed, now, dumping, files,
                   copy, held>>
    /\ UNCHANGED <<avars, fvars>>

(***************************************************************************)
(* dump(filePath): lines 100-113.  The function is async: it runs up to    *)
(* its first await when called and continues when mkdir, then writeFile,   *)
(* have completed; other calls of the capturer run in between.             *)
(***************************************************************************)
DefaultPath == ".seedify/queries.jsonl"

\* the arguments dump is called with: none, or a path
DumpPaths == {Undefined, DefaultPath}

\* path.dirname(filePath) of the paths above
dirname(filePath) == IF filePath = DefaultPath THEN ".seedify" ELSE "."

\* the JSON text of a record, on one line
JsonText(q) ==
    [kind |-> "json", query |-> q.query, params |-> q.params, timestamp |-> q.timestamp]

\* the line breaks of a query text
LineBreaks(text) == Len(SelectSeq(text, LAMBDA t : t = NL))

\* a string is the sequence of the lines its "\n" separate.
\* JSON.stringify that leaves the line breaks of the query text as they
\* are: the JSON text is cut into pieces, none of which parses
stringifyRaw(q) ==
    IF LineBreaks(q.query) = 0 THEN <<JsonText(q)>>
    ELSE [j \in 1..(LineBreaks(q.query) + 1) |-> BadLine]

\* JSON.stringify(q): control characters are escaped, a line break of the
\* query text becomes the two characters \n, so the string is one line
stringify(q) == <<JsonText(q)>>

RECURSIVE map(_)
map(buffer) ==
    IF buffer = <<>> THEN <<>> ELSE <<stringify(Head(buffer))>> \o map(Tail(buffer))

\* lines.join('\n') + '\n', as the sequence of lines "\n" separates
joined(ls) == IF ls = <<>> THEN <<EmptyLine, EmptyLine>> ELSE Flatten(ls) \o <<EmptyLine>>

Directory(dir) == [path |-> dir, type |-> "directory", data |-> <<>>]
File(filePath, data) == [path |-> filePath, type |-> "file", data |-> data]

\* fs.writeFile(filePath, data): the file is created or replaced
writeFile(fs, filePath, data) ==
    {f \in fs : f.path # filePath} \cup {File(filePath, data)}

\* the call: path.dirname(filePath) throws a TypeError for a path that is not
\* a string, which rejects the promise; else fs.mkdir is started.  A
\* behaviour has one call that reaches the file system, after any number of
\* rejected ones.
dump ==
    \E filePath \in DumpPaths :
        /\ dumping.pc \in {"idle", "rejected"}
        /\ IF filePath = Undefined
           THEN dumping' = [NoDump EXCEPT !.pc = "rejected",
                                          !.error = "TypeError [ERR_INVALID_ARG_TYPE]"]
           ELSE dumping' = [NoDump EXCEPT !.pc = "mkdir", !.filePath = filePath,
                                          !.atCall = capturedQueries]
        /\ UNCHANGED <<capturedQueries, isCapturing, originalQuery, pgQuery, executed,
                       now, files, copy, held>>
        /\ UNCHANGED <<avars, fvars>>

\* await fs.mkdir(dir, {recursive: true}) has completed: the lines are built
\* from the buffer and fs.writeFile is started
dumpMkdir ==
    /\ dumping.pc = "mkdir"
    /\ files' = files \cup {Directory(dirname(dumping.filePath))}
    /\ dumping' = [dumping EXCEPT !.pc = "write", !.data = joined(map(capturedQueries))]
    /\ UNCHANGED <<capturedQueries, isCapturing, originalQuery, pgQuery, executed, now,
                   copy, held>>
    /\ UNCHANGED <<avars, fvars>>

\* await fs.writeFile(filePath, ...) has completed: the number of queries is
\* logged and the promise resolves
dumpWriteFile ==
    /\ dumping.pc = "write"
    /\ files' = writeFile(files, dumping.filePath, dumping.data)
    /\ dumping' = [dumping EXCEPT !.pc = "resolved", !.reported = Len(capturedQueries)]
    /\ UNCHANGED <<capturedQueries, isCapturing, originalQuery, pgQuery, executed, now,
                   copy, held>>
    /\ UNCHANGED <<avars, fvars>>

InitCapture == AnalyzerIdle /\ NoDirectCall /\ CapturerLoaded

NextCapture ==
    \/ start
    \/ stop
    \/ query
    \/ holdQuery
    \/ queryHeld
    \/ getQueries
    \/ mutateCopy
    \/ clear
    \/ dump
    \/ dumpMkdir
    \/ dumpWriteFile

SpecCapture == InitCapture /\ [][NextCapture]_vars

\* C19: dump() called without a path writes the captured queries to
\* .seedify/queries.jsonl and resolves without error: a call without a path
\* is never rejected, and once it has resolved the file exists.
C19_DumpDefaultPath ==
    (dumping.pc # "idle" /\ dumping.filePath = Undefined) =>
        /\ dumping.pc # "rejected"
        /\ dumping.pc = "resolved" =>
               \E f \in files : f.path = DefaultPath /\ f.type = "file"

\* capturing is on exactly when the pg client's query method is the single
\* interception layer over the saved original method
C20_Lifecycle ==
    /\ isCapturing => (pgQuery = Patched /\ originalQuery = Original)
    /\ ~isCapturing => (pgQuery = Original /\ originalQuery = Null)

\* a step that is a call of client.query
C20_QueryCall == now' # now

C20_HasText(args) == queryText(args) # Undefined /\ queryText(args) # <<>>

\* the call reached the original method once, and left one new record with
\* its text if it has one, none if it has none
C20_OncePerText ==
    /\ Len(executed') = Len(executed) + 1
    /\ IF C20_HasText(executed'[Len(executed')].args)
       THEN /\ Len(capturedQueries') = Len(capturedQueries) + 1
            /\ capturedQueries'[Len(capturedQueries')].query =
                   queryText(executed'[Len(executed')].args)
            /\ SubSeq(capturedQueries', 1, Len(capturedQueries)) = capturedQueries
       ELSE capturedQueries' = capturedQueries

\* C20 as stated: start() while capturing and stop() while not capturing are
\* no-ops, so capturing is on exactly under one interception layer with the
\* original method saved, the query method is the original one whenever
\* capturing is off, and while capturing every query call adds exactly one
\* record.
C20_EveryCallRecordedOnce ==
    /\ []C20_Lifecycle
    /\ [][(C20_QueryCall /\ isCapturing) =>
              Len(capturedQueries') = Len(capturedQueries) + 1]_vars

\* C20, amended: the same, where a query call adds exactly one record when
\* its query text is not empty and none when it is.
C20_CallWithTextRecordedOnce ==
    /\ []C20_Lifecycle
    /\ [][(C20_QueryCall /\ isCapturing) => C20_OncePerText]_vars

\* a query was recorded once while capturing, stop() restored the original
\* method, and a query made afterwards was not recorded
C20_Witness ==
    /\ ~isCapturing
    /\ pgQuery = Original
    /\ originalQuery = Null
    /\ Len(executed) = 2
    /\ C20_HasText(executed[1].args)
    /\ C20_HasText(executed[2].args)
    /\ Len(capturedQueries) = 1
    /\ capturedQueries[1].timestamp = 1

(***************************************************************************)
(* The capture buffer: who changes it.                                     *)
(***************************************************************************)
\* a step in which the caller's array is replaced or changed
C21_CopyStep == copy' # copy

\* a step of clear() on a buffer that holds records
C21_ClearStep == capturedQueries # <<>> /\ capturedQueries' = <<>>

\* a step of stop() that turns capturing off
C21_StopStep == isCapturing /\ ~isCapturing'

\* a step of dump(): the call, or the completion of mkdir or writeFile
C21_DumpStep == dumping' # dumping

\* C21: the buffer is initially empty; getQueries() returns a copy with the
\* buffer's records, and a change of the returned array never changes the
\* buffer; clear() empties the buffer and leaves capturing as it is; stop()
\* and dump() leave the buffer's contents unchanged.
C21_BufferOwnership ==
    /\ capturedQueries = <<>>
    /\ [][/\ C21_CopyStep =>
               /\ capturedQueries' = capturedQueries
               /\ ~copy'[1].shared
               /\ \/ copy'[1].items = capturedQueries
                  \/ copy # <<>> /\ copy'[1].items = Append(copy[1].items, Pushed)
          /\ C21_ClearStep => isCapturing' = isCapturing
          /\ C21_StopStep => capturedQueries' = capturedQueries
          /\ C21_DumpStep => capturedQueries' = capturedQueries]_vars

\* a record was captured and copied, the copy was changed, the buffer was
\* dumped and then cleared while capturing: the copy still holds the record
\* and the pushed one, the file holds the record, the buffer is empty
C21_Witness ==
    /\ isCapturing
    /\ capturedQueries = <<>>
    /\ copy # <<>>
    /\ Len(copy[1].items) = 2
    /\ copy[1].items[2] = Pushed
    /\ dumping.pc = "resolved"
    /\ \E f \in files : f.type = "file" /\ Len(f.data) = 2

(***************************************************************************)
(* Two analyzeFile calls in flight together.  analyzeFile has one await,   *)
(* the file read: a call runs up to it, and when the read has completed    *)
(* the rest of the function runs without interruption.                     *)
(***************************************************************************)
MaxTaskLines == 2

TaskIds == {1, 2}

TaskPool == {EqLine("users", "id", Num(42)), EqLine("_", "id", Num(9)), LiteralLine,
             BadLine}

TaskFiles == UNION {[1..n -> TaskPool] : n \in 0..MaxTaskLines}

\* the frame of a call: where it is, the file it reads, its Set and Map,
\* and how its promise settled
Frame(file) ==
    [pc |-> "ready", content |-> file, acc |-> EmptyAcc, result |-> <<>>, error |-> ""]

\* the accumulators of a call if they were module-level: what the calls
\* that returned before have left in them
NewAccShared(frames, i) ==
    IF \E j \in TaskIds \ {i} : frames[j].pc = "returned"
    THEN frames[CHOOSE j \in TaskIds \ {i} : frames[j].pc = "returned"].acc
    ELSE EmptyAcc

\* lines 458-460: new Set(), [], new Map(), local to the call
NewAcc(frames, i) == EmptyAcc

\* lines 455-498 after the read: split, loop, sort and return, or the
\* SyntaxError of the first line that does not parse
Resumed(frame, initial) ==
    IF \E k \in 1..Len(readLines(frame.content)) : ~IsJson(readLines(frame.content)[k])
    THEN [frame EXCEPT !.pc = "rejected", !.error = "SyntaxError"]
    ELSE [frame EXCEPT
             !.pc = "returned",
             !.acc = foldLines(initial, readLines(frame.content), 1),
             !.result = <<AnalysisResult(foldLines(initial, readLines(frame.content), 1),
                                         readLines(frame.content))>>]

InitTasks ==
    /\ AnalyzerIdle
    /\ CapturerLoaded
    /\ call = NoCall
    /\ returned = <<>>
    /\ tasks \in {<<Frame(f), Frame(g)>> : f \in TaskFiles, g \in TaskFiles}

\* analyzeFile(inputPath) is called: fs.readFile is started
analyzeFileCall ==
    \E i \in TaskIds :
        /\ tasks[i].pc = "ready"
        /\ tasks' = [tasks EXCEPT ![i].pc = "reading"]
        /\ UNCHANGED <<call, returned, avars, cvars>>

\* the read of a call has completed: the call runs to its end
analyzeFileResume ==
    \E i \in TaskIds :
        /\ tasks[i].pc = "reading"
        /\ tasks' = [tasks EXCEPT ![i] = Resumed(tasks[i], NewAcc(tasks, i))]
        /\ UNCHANGED <<call, returned, avars, cvars>>

NextTasks == analyzeFileCall \/ analyzeFileResume

SpecTasks == InitTasks /\ [][NextTasks]_vars

\* what a call on the file returns when it runs alone
C22_Alone(file) == analyzeLines(readLines(file))

C22_Rejects(file) ==
    \E k \in 1..Len(readLines(file)) : ~IsJson(readLines(file)[k])

C23_Plain(c) == [table |-> c.table, column |-> c.column, values |-> c.values]

C23_PlainConditions == [j \in 1..Len(Conditions) |-> C23_Plain(Conditions[j])]

\* C23: for orders.status = $N with a resolvable $N exactly two conditions
\* are emitted, the tableless one for status first and the one with table
\* orders second, both with values [params[N-1]]; and the conditions of
\* status >= $N AND id = $M come out in the order of the pattern families,
\* the equality first, whichever predicate the query text has first.
C23_FamilyOrder ==
    ExtractReturned =>
        /\ \A n \in 1..Len(call.params) :
               call.query = EqualQuery(1, "status", n) =>
                   C23_PlainConditions
                     = <<[table |-> Null, column |-> "status",
                          values |-> <<call.params[n]>>],
                         [table |-> "orders", column |-> "status",
                          values |-> <<call.params[n]>>]>>
        /\ \A n \in 1..Len(call.params), m \in 1..Len(call.params) :
               call.query \in {CompareThenEqualQuery(n, m), EqualThenCompareQuery(n, m)} =>
                   Conditions
                     = <<Cond(Null, "id", Undefined, <<call.params[m]>>),
                         Cond(Null, "status", ">=", <<call.params[n]>>)>>

\* orders.status = $2 was extracted with both parameters given
C23_Witness ==
    /\ ExtractReturned
    /\ call.query = EqualQuery(1, "status", 2)
    /\ call.params = <<Num(42), Str("alice")>>
    /\ Len(Conditions) = 2
    /\ Conditions[2].table = "orders"
    /\ Conditions[2].values = <<Str("alice")>>

(***************************************************************************)
(* The table inferred for a condition without one: tables[0] of the query. *)
(***************************************************************************)
\* a tableless condition, as the loop of analyzeFile meets it
C24_Condition == Cond(Null, "id", Undefined, <<Num(42)>>)

\* the table the loop infers for it from the tables of the query
C24_Inferred == InferTable(C24_Condition, returned[1])

\* the name a table reference of the query text stands for
C24_Name(t) ==
    IF Len(t) = 3 THEN toLowerCase(t[1].s) \o "." \o toLowerCase(t[3].s)
    ELSE toLowerCase(t[1].s)

\* the queries whose FROM clause has t as its first table
C24_FromClauseOf(t) ==
    UNION {{SelectQuery(f, t), SelfJoinQuery(f, t), UpdateFromQuery(f, t),
            InsertSelectQuery(f, t), ExtractFromQuery(f, t)} : f \in FromWords}

C24_FromMatches == {p \in C16_FromPositions : C16_NameAt(p) \notin keywords}

\* the tables of the FROM matches, in the order of the text
C24_FromTables ==
    {returned[1][j] : j \in {j \in 1..Len(returned[1]) :
                                \E p \in C24_FromMatches : returned[1][j] = C16_NameAt(p)}}

C25_NotInOnlyItsColumn ==
    ExtractReturned =>
        \A q \in 0..1, n \in PlaceholderNumbers, m \in PlaceholderNumbers :
            call.query = NotInQuery(q, "status", n, m) =>
                \A j \in 1..Len(Conditions) : Conditions[j].column = "status"

(***************************************************************************)
(* analyzeFile: the tables the aggregated conditions name.                 *)
(***************************************************************************)
\* C26: every table named by an aggregated condition of an AnalysisResult
\* is a member of the tables list of the same result, also when the query
\* qualifies the column with a table alias.
C26_ConditionTablesListed ==
    Returned =>
        \A j \in 1..Len(Analysis.conditions) :
            Analysis.conditions[j].table # Null =>
                \E i \in 1..Len(Analysis.tables) :
                    Analysis.tables[i] = Analysis.conditions[j].table

(***************************************************************************)
(* analyzeFile: which conditions are merged.                               *)
(***************************************************************************)
\* C27: the values of an aggregated condition come only from extracted
\* conditions that have, after inference, its table and its column, so a
\* condition of a table named _ is never merged with a tableless one on
\* the same column; and every extracted condition that has a table is
\* aggregated, and then rendered, under that table.
C27_MergedOnlyOnSamePair ==
    Returned =>
        /\ \A j \in 1..Len(Analysis.conditions) :
               \A v \in SeqToSet(Analysis.conditions[j].values) :
                   \E h \in 1..Len(SessionConditions) :
                       /\ SessionConditions[h].table = Analysis.conditions[j].table
                       /\ SessionConditions[h].column = Analysis.conditions[j].column
                       /\ v \in SeqToSet(SessionConditions[h].values)
        /\ \A h \in 1..Len(SessionConditions) :
               SessionConditions[h].table # Null =>
                   /\ \E j \in 1..Len(Analysis.conditions) :
                          /\ Analysis.conditions[j].table = SessionConditions[h].table
                          /\ Analysis.conditions[j].column = SessionConditions[h].column
                   /\ pc = "rendered" =>
                          \E j \in 1..Len(rendered) :
                              rendered[j].table = SessionConditions[h].table

(***************************************************************************)
(* dump(path): what is written, and the count that is reported.            *)
(***************************************************************************)
\* the file a resolved dump has written
C28_Written == CHOOSE f \in files : f.type = "file" /\ f.path = dumping.filePath

\* the records of a file text: its lines without the empty ones
C28_Records(data) == SelectSeq(data, LAMBDA l : l.kind = "json")

\* C28: every record that is in the buffer when dump(path) is called is
\* written to the file, in capture order, whatever clear() or further
\* captures do before the promise resolves, and the number of records
\* written is the count dump reports.
C28_DumpWritesBufferAtCall ==
    dumping.pc = "resolved" =>
        /\ \E f \in files : f.type = "file" /\ f.path = dumping.filePath
        /\ \E first \in 1..(Len(C28_Records(C28_Written.data)) + 1) :
               /\ first + Len(dumping.atCall) - 1 <= Len(C28_Records(C28_Written.data))
               /\ SubSeq(C28_Records(C28_Written.data), first,
                         first + Len(dumping.atCall) - 1)
                    = Flatten(map(dumping.atCall))
        /\ dumping.reported = Len(C28_Records(C28_Written.data))

(***************************************************************************)
(* dump(path) followed by analyzeFile(path).                               *)
(***************************************************************************)
\* the file of a resolved dump
C29_File == CHOOSE f \in files : f.type = "file" /\ f.path = dumping.filePath

\* const lines = content.trim().split('\n').filter(Boolean) on that file
C29_Lines == readLines(C29_File.data)

\* JSON.parse of a line: the record
C29_Parse(line) ==
    [query |-> line.query, params |-> line.params, timestamp |-> line.timestamp]

\* the buffer was the same when the lines were built as when dump was called
C29_Undisturbed == dumping.data = joined(map(dumping.atCall))

C29_WitnessEmpty ==
    /\ dumping.pc = "resolved"
    /\ C29_Undisturbed
    /\ dumping.atCall = <<>>
    /\ C29_File.data = <<EmptyLine, EmptyLine>>
    /\ C29_Lines = <<>>

(***************************************************************************)
(* patchedQuery: what a call does.                                         *)
(***************************************************************************)
\* the original method ran once more, for the call of this step, and its
\* result went back to the caller
C30_OriginalInvokedOnce ==
    /\ Len(executed') = Len(executed) + 1
    /\ SubSeq(executed', 1, Len(executed)) = executed
    /\ executed'[Len(executed')].result
         = ResultOf(executed'[Len(executed')].this, executed'[Len(executed')].args)
    /\ executed'[Len(executed')].toCaller = executed'[Len(executed')].result

\* the record of the call of this step is the new last one of the buffer
C30_RecordAppended ==
    /\ Len(capturedQueries') = Len(capturedQueries) + 1
    /\ SubSeq(capturedQueries', 1, Len(capturedQueries)) = capturedQueries
    /\ capturedQueries'[Len(capturedQueries')]
         = [query |-> queryText(executed'[Len(executed')].args),
            params |-> IF queryParams(executed'[Len(executed')].args) = Undefined
                       THEN <<>>
                       ELSE queryParams(executed'[Len(executed')].args),
            timestamp |-> now]

\* C30: every query call reaches the original method exactly once, with
\* the receiver and arguments of the call, and returns its result, whether
\* or not a record is captured; while capturing a record {query, params
\* (default []), timestamp} is appended, after the earlier ones, if and only
\* if the query text is not empty; while not capturing, so after stop(), no
\* record is appended.
C30_PatchedQueryContract ==
    [][C20_QueryCall =>
          /\ C30_OriginalInvokedOnce
          /\ isCapturing =>
                 IF C20_HasText(executed'[Len(executed')].args)
                 THEN C30_RecordAppended
                 ELSE capturedQueries' = capturedQueries
          /\ ~isCapturing => capturedQueries' = capturedQueries]_vars

====
